---- MODULE Spec2Model ----
(***************************************************************************)
(* The authorization-decision caches of cedar_py:                          *)
(*   - LRUCache and CachedEngine        (src/cedar_py/caching.py)          *)
(*   - the cache built into Engine      (src/cedar_py/engine.py)           *)
(* and the canonical key encoders in front of them.                        *)
(*                                                                         *)
(* Python values are modelled as follows.                                  *)
(*   str            a sequence of tokens (one-character strings, or the    *)
(*                  printed form of a map key / value as one token)        *)
(*   dict           the sequence of its <<key, value>> items in insertion  *)
(*                  order (keys pairwise distinct)                         *)
(*   Optional[x]    None == <<>>, or the one-element sequence <<x>>        *)
(*   OrderedDict    the sequence of its entries, least recently used first *)
(*   time.time()    the integer clock `now`, in half seconds, so that      *)
(*                  base_ttl * 1.5 is an integer                           *)
(*   sha256 / md5   an injective tagging of the hashed string              *)
(***************************************************************************)
EXTENDS Integers, Sequences, FiniteSets, TLC

VARIABLES
    mode,          \* what is under test: "Key", "Tag", "LRUCache", "CachedEngine", "Engine",
                   \* "EnhancedEngine";
                   \* "none" before anything is constructed
    reqA, reqB,    \* key encoder: the two requests being encoded (version tag: policy sets)
    keyA, keyB,    \* key encoder: Optional[key] of reqA / reqB (version tag: their tags)
    encoder,       \* key encoder: which _generate_cache_key produced keyA, keyB
    max_size,      \* LRUCache.max_size / CacheConfig.max_size
    now,           \* time.time()
    cache,         \* LRUCache._cache / Engine._cache: entries, least recently used first
    stats,         \* LRUCache._stats / Engine._cache_stats
    lastOp,        \* history: the store operation performed last, and what it returned
    recency,       \* history: the keys present, by their last use (put or get hit)
    config,        \* IntelligentCacheConfig / CacheConfig
    policies,      \* PolicySet._policies: the policies, in insertion order
    current_policies_hash,  \* CachedEngine.current_policies_hash / Engine._current_policies_hash
    hot_queries,   \* CachedEngine.hot_queries: key -> frequency
    refresh_queue, \* CachedEngine.refresh_queue: keys with a refresh pending
    tasks,         \* refresh tasks submitted to CachedEngine.executor
    th,            \* the caller threads (each calls is_authorized once): where each is
                   \* in the call, and its locals
    inv,           \* the thread running invalidate_policy_cache: where it is, and its locals
    changes,       \* number of changes the application will still make to the policy set
    TTLCache_cache,       \* EnhancedEngine: TTLCache._cache, key -> decision
    TTLCache_timestamps,  \* EnhancedEngine: TTLCache._timestamps, key -> time of set
    lock,          \* LRUCache._lock: Optional[the thread that holds it]
    call_log,      \* history: the calls made to CedarAuthorizer.is_authorized, in order
    warm,          \* the thread running warm_cache: where it is, its batch, and the
                   \* history of the requests it has issued
    evalUnder,     \* history: key -> the policy set its stored result was evaluated under
    obtained       \* history: key -> the decision a call obtained and stored, while it stands

keyVars == <<reqA, reqB, keyA, keyB, encoder>>
storeVars == <<max_size, now, cache, stats>>
histVars == <<lastOp, recency>>
facadeVars == <<config, policies, current_policies_hash, hot_queries, refresh_queue,
                tasks, th, inv, changes, warm, evalUnder, obtained>>
enhancedVars == <<TTLCache_cache, TTLCache_timestamps>>
vars == <<mode, keyVars, storeVars, histVars, facadeVars, enhancedVars, lock,
          call_log>>

None == <<>>
Some(x) == <<x>>

-----------------------------------------------------------------------------
(* Bounds of the model.                                                    *)

\* longest context / entities map of a request
MaxMapLen == 2

\* identifiers: opaque strings, which may contain the separator character
Idents == { <<"a">>, <<"a", "|", "a">> }

\* keys and values of the context and entities maps, with Python's string order
CtxKeys == {"k1", "k2"}
CtxValues == {"v1"}
KeyRank == [k \in CtxKeys |-> IF k = "k1" THEN 1 ELSE 2]

-----------------------------------------------------------------------------
(* Requests.                                                               *)

Items == CtxKeys \X CtxValues

\* a dict: its items in insertion order, keys pairwise distinct
Dicts ==
    { d \in UNION { [1..n -> Items] : n \in 0..MaxMapLen } :
        \A i, j \in DOMAIN d : i # j => d[i][1] # d[j][1] }

\* Optional[Context]: present = FALSE is None; a Context object holds .data
Contexts == [present : {TRUE}, data : Dicts] \cup {[present |-> FALSE, data |-> <<>>]}

\* Optional[Dict]: present = FALSE is None
EntityMaps == [present : {TRUE}, data : Dicts] \cup {[present |-> FALSE, data |-> <<>>]}

Requests ==
    [principal : Idents, action : Idents, resource : Idents,
     context : Contexts, entities : EntityMaps]

\* the key/value pairs a dict holds, whatever their insertion order
PairsOf(d) == { d[i] : i \in DOMAIN d }

-----------------------------------------------------------------------------
(* str(), sorted() and "|".join() as the encoders use them.                *)

RECURSIVE Join(_, _)
Join(parts, sep) ==
    IF parts = <<>> THEN <<>>
    ELSE IF Len(parts) = 1 THEN parts[1]
    ELSE parts[1] \o <<sep>> \o Join(Tail(parts), sep)

\* tuples compare by their first component; the keys of one dict are distinct
TupleLess(x, y) == KeyRank[x[1]] < KeyRank[y[1]]

RECURSIVE InsertSorted(_, _)
InsertSorted(x, s) ==
    IF s = <<>> THEN <<x>>
    ELSE IF TupleLess(x, Head(s)) THEN <<x>> \o s
    ELSE <<Head(s)>> \o InsertSorted(x, Tail(s))

\* the items left in the order of the dict
Unsorted(items) == items

RECURSIVE Sorted(_)
Sorted(items) ==
    IF items = <<>> THEN <<>> ELSE InsertSorted(Head(items), Sorted(Tail(items)))

\* repr of a (key, value) tuple of strings: ('k1', 'v1')
ReprItem(it) == <<"(", "'" \o it[1] \o "'", ", ", "'" \o it[2] \o "'", ")">>

\* str of a list of tuples: [('k1', 'v1'), ('k2', 'v1')]
StrList(items) ==
    <<"[">> \o Join([i \in DOMAIN items |-> ReprItem(items[i])], ", ") \o <<"]">>

\* hexdigest(): the digest is taken to be collision free
Sha256_16(s) == <<"sha256">> \o s
Md5(s) == <<"md5">> \o s

-----------------------------------------------------------------------------
(* The canonical strings and the keys.                                     *)

\* caching.py: a Context object is always truthy (pydantic BaseModel);
\* an empty .data contributes the empty string as a fourth part
CachedEngine_key_string(r) ==
    LET ids == <<r.principal, r.action, r.resource>>
        withCtx ==
            IF r.context.present
            THEN Append(ids, IF r.context.data # <<>>
                             THEN StrList(Sorted(r.context.data))
                             ELSE <<>>)
            ELSE ids
        withEnt ==
            IF r.entities.present /\ r.entities.data # <<>>
            THEN Append(withCtx, StrList(Sorted(r.entities.data)))
            ELSE withCtx
    IN  Join(withEnt, "|")

CachedEngine_generate_cache_key(r) == Sha256_16(CachedEngine_key_string(r))

\* engine.py: the context part is appended only for a non-empty .data
Engine_key_string(r) ==
    LET ids == <<r.principal, r.action, r.resource>>
        withCtx ==
            IF r.context.present /\ r.context.data # <<>>
            THEN Append(ids, StrList(Sorted(r.context.data)))
            ELSE ids
        withEnt ==
            IF r.entities.present /\ r.entities.data # <<>>
            THEN Append(withCtx, StrList(Sorted(r.entities.data)))
            ELSE withCtx
    IN  Join(withEnt, "|")

Engine_generate_cache_key(r) == Md5(Engine_key_string(r))

-----------------------------------------------------------------------------
(* The bounded store: CacheEntry, CacheStats and the OrderedDict.          *)

\* largest capacity a cache is constructed with
MaxSize == 2
\* the clock runs from 0 to MaxTime
MaxTime == 2
\* lookups and evictions counted by the statistics
MaxRequests == 1
MaxEvictions == 1

NewStats == [hits |-> 0, misses |-> 0, evictions |-> 0, total_requests |-> 0]
\* history: no operation yet
NoOp == [op |-> "none", key |-> None, ret |-> None, found |-> FALSE,
         version |-> "-", age |-> "-", full |-> FALSE, lru |-> None,
         gone |-> {}, evicted |-> 0]

CacheEntry(k, result, t, ttl, hash) ==
    [key |-> k, result |-> result, timestamp |-> t, ttl |-> ttl,
     access_count |-> 0, policies_hash |-> hash]

\* CacheEntry.is_expired, at time t
is_expired(entry, t) == t - entry.timestamp > entry.ttl

\* variant: any version is accepted
AnyVersionIsValid(entry, current_hash) == TRUE

is_valid_for_policies(entry, current_hash) ==
    entry.policies_hash = current_hash

\* OrderedDict: key in d, d[key], del d[key], move_to_end, d[key] = entry
Keys(d) == { d[i].key : i \in DOMAIN d }
HasKey(d, k) == k \in Keys(d)
IndexOf(d, k) == CHOOSE i \in DOMAIN d : d[i].key = k
Lookup(d, k) == d[IndexOf(d, k)]
Delete(d, k) == SelectSeq(d, LAMBDA e : e.key # k)
MoveToEnd(d, k) == Append(Delete(d, k), Lookup(d, k))
\* variant: an assignment to a key that is present is dropped
KeepFirst(d, k, entry) ==
    IF HasKey(d, k) THEN d ELSE Append(d, entry)

\* assigning to a key that is present keeps the key's position
SetItem(d, k, entry) ==
    IF HasKey(d, k) THEN [d EXCEPT ![IndexOf(d, k)] = entry] ELSE Append(d, entry)

\* variant: an expired or invalid entry is left in place
KeepStale(d, k) == d

\* `del self._cache[key]` for an expired or invalid entry (nothing to delete
\* when the key is absent)
RemoveStale(d, k) == Delete(d, k)

\* variant: a get that removes a stale entry starts the counters again
GetResettingStats(d, st, k, policies_hash, t) ==
    IF HasKey(d, k) /\ ~is_expired(Lookup(d, k), t)
                    /\ is_valid_for_policies(Lookup(d, k), policies_hash)
    THEN [cache |-> Append(Delete(d, k), [Lookup(d, k) EXCEPT !.access_count = @ + 1]),
          stats |-> [st EXCEPT !.hits = @ + 1, !.total_requests = @ + 1],
          ret |-> Some(Lookup(d, k).result)]
    ELSE [cache |-> RemoveStale(d, k),
          stats |-> IF HasKey(d, k)
                    THEN [st EXCEPT !.hits = 0, !.misses = 1, !.evictions = 0,
                                    !.total_requests = 1]
                    ELSE [st EXCEPT !.misses = @ + 1, !.total_requests = @ + 1],
          ret |-> None]

\* LRUCache.get: the store and statistics afterwards, and the value returned
LRUCache_get(d, st, k, policies_hash, t) ==
    IF HasKey(d, k) /\ ~is_expired(Lookup(d, k), t)
                    /\ is_valid_for_policies(Lookup(d, k), policies_hash)
    THEN LET entry == Lookup(d, k)
             used == [entry EXCEPT !.access_count = @ + 1]
         IN  [cache |-> Append(Delete(d, k), used),
              stats |-> [st EXCEPT !.hits = @ + 1, !.total_requests = @ + 1],
              ret |-> Some(entry.result)]
    ELSE [cache |-> RemoveStale(d, k),
          stats |-> [st EXCEPT !.misses = @ + 1, !.total_requests = @ + 1],
          ret |-> None]

\* the loop `while len(cache) >= max_size: popitem(last=False); evictions += 1`;
\* popitem on an empty OrderedDict raises KeyError
\* variant: the loop runs only while len(cache) > max_size
EvictLoopWhileAbove(d, st, size) ==
    IF Len(d) > size
    THEN [cache |-> Tail(d), stats |-> [st EXCEPT !.evictions = @ + 1], raised |-> FALSE]
    ELSE [cache |-> d, stats |-> st, raised |-> FALSE]

RECURSIVE EvictLoop(_, _, _)
EvictLoop(d, st, size) ==
    IF Len(d) >= size
    THEN IF d = <<>>
         THEN [cache |-> d, stats |-> st, raised |-> TRUE]
         ELSE EvictLoop(Tail(d), [st EXCEPT !.evictions = @ + 1], size)
    ELSE [cache |-> d, stats |-> st, raised |-> FALSE]

\* LRUCache.put
LRUCache_put(d, st, size, k, result, ttl, policies_hash, t) ==
    LET ev == EvictLoop(d, st, size)
    IN  IF ev.raised THEN ev
        ELSE [cache |-> SetItem(ev.cache, k, CacheEntry(k, result, t, ttl, policies_hash)),
              stats |-> ev.stats,
              raised |-> FALSE]

\* history: a get of key k against version h at time t on store d returned
\* ret; whether it found the key, and then whether the entry carried version
\* h and how its age compared with its ttl
GetOp(d, k, h, t, ret) ==
    LET found == \E i \in DOMAIN d : d[i].key = k
        e == d[CHOOSE i \in DOMAIN d : d[i].key = k]
    IN  [NoOp EXCEPT !.op = "get", !.key = k, !.ret = ret, !.found = found,
            !.version = IF ~found THEN "-"
                        ELSE IF e.policies_hash = h THEN "same" ELSE "other",
            !.age = IF ~found THEN "-"
                    ELSE IF t - e.timestamp < e.ttl THEN "below ttl"
                    ELSE IF t - e.timestamp = e.ttl THEN "at ttl" ELSE "above ttl"]

\* history: a put of key k on store d of capacity size, whose keys by last use
\* are rec, left store d2 and statistics st2 (st before); raised: it failed
PutOp(d, st, size, rec, k, d2, st2, raised) ==
    [NoOp EXCEPT !.op = IF raised THEN "put raised" ELSE "put", !.key = k,
        !.found = \E i \in DOMAIN d : d[i].key = k,
        !.full = (Len(d) = size),
        !.lru = IF rec = <<>> THEN None ELSE Some(Head(rec)),
        !.gone = { d[i].key : i \in DOMAIN d } \ { d2[i].key : i \in DOMAIN d2 },
        !.evicted = st2.evictions - st.evictions]

\* history: an invalidation or a clear of store d left store d2
BulkOp(name, d, d2) ==
    [NoOp EXCEPT !.op = name,
        !.gone = { d[i].key : i \in DOMAIN d } \ { d2[i].key : i \in DOMAIN d2 }]

\* an invalidation that empties the store
InvalidateAll(d, old_policies_hash) == <<>>

\* LRUCache.invalidate_by_policy_hash
LRUCache_invalidate_by_policy_hash(d, old_policies_hash) ==
    SelectSeq(d, LAMBDA e : e.policies_hash # old_policies_hash)

\* LRUCache.clear
LRUCache_clear(d) == <<>>

-----------------------------------------------------------------------------
(* The policy set, the Decision Source and the policy fingerprints.        *)

\* the policies an application holds: a policy permits or forbids every request
PermitAll == [id |-> "p1", effect |-> "permit"]
ForbidAll == [id |-> "p2", effect |-> "forbid"]
Policies == {PermitAll, ForbidAll}

PolicyIds(pols) == { pols[i].id : i \in DOMAIN pols }

\* PolicySet.add (the id is new) and PolicySet.remove
PolicySet_add(pols, p) == Append(pols, p)
PolicySet_remove(pols, id) == SelectSeq(pols, LAMBDA p : p.id # id)

\* the Decision Source: Cedar allows a request iff some policy permits it and
\* no policy forbids it
Decide(pols) ==
    /\ \E i \in DOMAIN pols : pols[i].effect = "permit"
    /\ \A i \in DOMAIN pols : pols[i].effect # "forbid"

\* Engine._compute_policies_hash: md5 of str(policy_set); PolicySet defines
\* __repr__ only, which prints the number of policies
Engine_compute_policies_hash(pols) ==
    Md5(<<"PolicySet(policies=", ToString(Len(pols)), ")">>)

\* CachedEngine._compute_policies_hash: sha256 of str(_policies.keys()), which
\* prints the policy ids in insertion order: dict_keys(['p1', 'p2'])
CachedEngine_compute_policies_hash(pols) ==
    Sha256_16(<<"dict_keys([">>
              \o Join([i \in DOMAIN pols |-> <<"'" \o pols[i].id \o "'">>], ", ")
              \o <<"])">>)

compute_policies_hash(m, pols) ==
    IF m = "Engine" THEN Engine_compute_policies_hash(pols)
    ELSE CachedEngine_compute_policies_hash(pols)

-----------------------------------------------------------------------------
(* The facades: what is_authorized is called with, and the callers.        *)

\* the largest number of policy set changes
MaxPolicyChanges == 1

Threads == {"t1", "t2"}

NoMap == [present |-> FALSE, data |-> <<>>]
FacadeRequests ==
    { [principal |-> <<"a">>, action |-> <<"a">>, resource |-> res,
       context |-> NoMap, entities |-> NoMap] : res \in Idents }

\* the cache_ttl argument: None, or a ttl
CacheTtls == {None}

generate_cache_key(m, r) ==
    IF m = "Engine" THEN Engine_generate_cache_key(r)
    ELSE CachedEngine_generate_cache_key(r)

FacadeKeys ==
    { generate_cache_key(m, r) : m \in {"Engine", "CachedEngine"}, r \in FacadeRequests }

\* `x or y` on an Optional number: None and 0 are falsy
Or(x, y) == IF x = None \/ x = Some(0) THEN y ELSE x[1]

\* IntelligentCacheConfig / CacheConfig as constructed (ttl in half seconds)
Configs ==
    { [default_ttl |-> 2,
       enable_policy_aware_invalidation |-> TRUE,
       enable_hot_path_optimization |-> TRUE,
       enable_background_refresh |-> FALSE] }

\* CachedEngine.hot_threshold
HotThreshold == 10

\* variant: the thresholds are strict
AdaptiveTtlAbove(cfg, freqs, k) ==
    IF ~cfg.enable_hot_path_optimization THEN cfg.default_ttl
    ELSE IF freqs[k] > HotThreshold THEN cfg.default_ttl * 2
    ELSE IF freqs[k] > HotThreshold \div 2 THEN (cfg.default_ttl * 3) \div 2
    ELSE cfg.default_ttl

\* CachedEngine._get_adaptive_ttl; default_ttl is even, so base_ttl * 1.5 is exact
get_adaptive_ttl(cfg, freqs, k) ==
    IF ~cfg.enable_hot_path_optimization THEN cfg.default_ttl
    ELSE IF freqs[k] >= HotThreshold THEN cfg.default_ttl * 2
    ELSE IF freqs[k] >= HotThreshold \div 2 THEN (cfg.default_ttl * 3) \div 2
    ELSE cfg.default_ttl

\* a caller thread outside is_authorized, before its first call
\* (cleared: history, the store was cleared after this call's result had been
\* evaluated and before it was stored)
IdleThread ==
    [pc |-> "idle", key |-> None, cache_ttl |-> None, frequency |-> 0,
     hash |-> None, result |-> None, ret |-> None, error |-> "none",
     evaluated |-> FALSE, evalPolicies |-> None, evalHash |-> None,
     expect |-> None, clean |-> TRUE, cleared |-> FALSE]

\* a caller thread that has returned from is_authorized: its locals are gone
Returned(thread, ret, error) ==
    [IdleThread EXCEPT !.pc = "done", !.key = thread.key, !.ret = ret, !.error = error,
                       !.evaluated = thread.evaluated, !.expect = thread.expect,
                       !.clean = thread.clean, !.cleared = thread.cleared]

\* the thread changing policies and calling invalidate_policy_cache
\* (history: how its last call ended; the keys that were tagged old_hash, the
\* keys it removed, the keys it kept, the removed keys not stored again since)
IdleInv == [pc |-> "idle", old |-> None, new |-> None, outcome |-> "none",
            tagged |-> {}, gone |-> {}, kept |-> {}, still |-> {}]

-----------------------------------------------------------------------------
(* Values that the variables of the classes not under test keep.           *)

KeyIdle ==
    /\ reqA = None /\ reqB = None /\ keyA = None /\ keyB = None /\ encoder = "none"

StoreIdle ==
    /\ max_size = 1 /\ now = 0 /\ cache = <<>> /\ stats = NewStats

HistIdle ==
    /\ lastOp = NoOp /\ recency = <<>>

FacadeIdle ==
    /\ config = None /\ policies = <<>> /\ current_policies_hash = None
    /\ hot_queries = <<>> /\ refresh_queue = {} /\ tasks = {}
    /\ th = <<>> /\ inv = None /\ changes = 0 /\ warm = None
    /\ evalUnder = <<>> /\ obtained = <<>>
    /\ TTLCache_cache = <<>> /\ TTLCache_timestamps = <<>> /\ lock = None
    /\ call_log = <<>>

-----------------------------------------------------------------------------
(* Specification of LRUCache on its own: clients call get, put,            *)
(* invalidate_by_policy_hash and clear in any order, each under the lock.  *)

StoreKeys == { <<"A">>, <<"B">>, <<"C">> }
StoreHashes == {"h1", "h2"}
StoreTtls == {1}

\* the decision a client stores for key k under policy version h
StoreDecision(k, h) == (k = <<"A">>) = (h = "h1")

\* history: a use of key k moves it to the recent end of the keys present
Used(rec, k, present) == SelectSeq(rec, LAMBDA x : x # k /\ x \in present) \o <<k>>
StillPresent(rec, present) == SelectSeq(rec, LAMBDA x : x \in present)

InitStore ==
    /\ mode = "LRUCache"
    /\ KeyIdle
    /\ max_size \in 0..MaxSize
    /\ now = 0
    /\ cache = <<>>
    /\ stats = NewStats
    /\ HistIdle
    /\ FacadeIdle

StoreGet(k, h) ==
    /\ mode = "LRUCache"
    /\ stats.total_requests < MaxRequests
    /\ \E r \in {LRUCache_get(cache, stats, k, h, now)} :
           /\ cache' = r.cache
           /\ stats' = r.stats
           /\ lastOp' = GetOp(cache, k, h, now, r.ret)
           /\ recency' = IF r.ret # None THEN Used(recency, k, Keys(r.cache))
                         ELSE StillPresent(recency, Keys(r.cache))
    /\ UNCHANGED <<mode, call_log, lock, enhancedVars, keyVars, max_size, now,
                   facadeVars>>

StorePut(k, result, ttl, h) ==
    /\ mode = "LRUCache"
    /\ stats.evictions < MaxEvictions
    /\ \E r \in {LRUCache_put(cache, stats, max_size, k, result, ttl, h, now)} :
           /\ cache' = r.cache
           /\ stats' = r.stats
           /\ lastOp' = PutOp(cache, stats, max_size, recency, k, r.cache, r.stats, r.raised)
           /\ recency' = IF r.raised THEN StillPresent(recency, Keys(r.cache))
                         ELSE Used(recency, k, Keys(r.cache))
    /\ UNCHANGED <<mode, call_log, lock, enhancedVars, keyVars, max_size, now,
                   facadeVars>>

StoreInvalidate(h) ==
    /\ mode = "LRUCache"
    /\ cache' = LRUCache_invalidate_by_policy_hash(cache, h)
    /\ lastOp' = BulkOp("invalidate", cache, cache')
    /\ recency' = StillPresent(recency, Keys(cache'))
    /\ UNCHANGED <<mode, call_log, lock, enhancedVars, keyVars, max_size, now, stats,
                   facadeVars>>

StoreClear ==
    /\ mode = "LRUCache"
    /\ cache' = LRUCache_clear(cache)
    /\ lastOp' = BulkOp("clear", cache, cache')
    /\ recency' = <<>>
    /\ UNCHANGED <<mode, call_log, lock, enhancedVars, keyVars, max_size, now, stats,
                   facadeVars>>

Tick ==
    /\ mode \in {"LRUCache", "EnhancedEngine"}
    /\ now < MaxTime
    /\ now' = now + 1
    /\ UNCHANGED <<mode, call_log, lock, enhancedVars, keyVars, max_size, cache, stats,
                   histVars, facadeVars>>

NextStore ==
    \/ \E k \in StoreKeys, h \in StoreHashes : StoreGet(k, h)
    \/ \E k \in StoreKeys, ttl \in StoreTtls, h \in StoreHashes :
          StorePut(k, StoreDecision(k, h), ttl, h)
    \/ \E h \in StoreHashes : StoreInvalidate(h)
    \/ StoreClear
    \/ Tick

SpecStore == InitStore /\ [][NextStore]_vars

\* A store one entry larger, used with one more key and a single policy
\* version, so that a key can be put again while the store is not full.
EvictKeys == StoreKeys \cup { <<"D">> }

InitEvict ==
    /\ mode = "LRUCache"
    /\ KeyIdle
    /\ max_size = MaxSize + 1
    /\ now = 0
    /\ cache = <<>>
    /\ stats = NewStats
    /\ HistIdle
    /\ FacadeIdle

NextEvict ==
    \/ \E k \in EvictKeys : StoreGet(k, "h1")
    \/ \E k \in EvictKeys, ttl \in StoreTtls : StorePut(k, StoreDecision(k, "h1"), ttl, "h1")
    \/ StoreInvalidate("h1")
    \/ StoreClear
    \/ Tick

SpecEvict == InitEvict /\ [][NextEvict]_vars

-----------------------------------------------------------------------------
(* Specification of the key encoders: two requests are drawn, then encoded *)
(* by one of the two _generate_cache_key methods.                          *)

InitKey ==
    /\ mode = "Key"
    /\ reqA \in Requests
    /\ reqB \in Requests
    /\ keyA = None
    /\ keyB = None
    /\ encoder = "none"
    /\ StoreIdle
    /\ HistIdle
    /\ FacadeIdle

EncodeCachedEngine ==
    /\ mode = "Key"
    /\ encoder = "none"
    /\ keyA' = Some(CachedEngine_generate_cache_key(reqA))
    /\ keyB' = Some(CachedEngine_generate_cache_key(reqB))
    /\ encoder' = "CachedEngine"
    /\ UNCHANGED <<mode, call_log, lock, enhancedVars, reqA, reqB, storeVars, histVars,
                   facadeVars>>

EncodeEngine ==
    /\ mode = "Key"
    /\ encoder = "none"
    /\ keyA' = Some(Engine_generate_cache_key(reqA))
    /\ keyB' = Some(Engine_generate_cache_key(reqB))
    /\ encoder' = "Engine"
    /\ UNCHANGED <<mode, call_log, lock, enhancedVars, reqA, reqB, storeVars, histVars,
                   facadeVars>>

NextKey == EncodeCachedEngine \/ EncodeEngine

SpecKey == InitKey /\ [][NextKey]_vars

-----------------------------------------------------------------------------
(* _compute_policies_hash of both classes, applied to two policy sets      *)
(* (held in reqA, reqB; their tags in keyA, keyB).                         *)

\* the largest number of policies in a policy set
MaxPolicies == 2

\* policies: an id and a body (permit or forbid everything)
TagPolicies == [id : {"p1", "p2", "p3"}, effect : {"permit", "forbid"}]

\* PolicySet._policies: a dict keyed by policy id, in insertion order
PolicySets ==
    UNION { { s \in [1..n -> TagPolicies] :
                \A i, j \in 1..n : i # j => s[i].id # s[j].id } : n \in 0..MaxPolicies }

InitTag ==
    /\ mode = "Tag"
    /\ reqA \in PolicySets
    /\ reqB \in PolicySets
    /\ keyA = None
    /\ keyB = None
    /\ encoder = "none"
    /\ StoreIdle
    /\ HistIdle
    /\ FacadeIdle

TagCachedEngine ==
    /\ mode = "Tag"
    /\ encoder = "none"
    /\ keyA' = Some(CachedEngine_compute_policies_hash(reqA))
    /\ keyB' = Some(CachedEngine_compute_policies_hash(reqB))
    /\ encoder' = "CachedEngine"
    /\ UNCHANGED <<mode, call_log, lock, enhancedVars, reqA, reqB, storeVars, histVars,
                   facadeVars>>

TagEngine ==
    /\ mode = "Tag"
    /\ encoder = "none"
    /\ keyA' = Some(Engine_compute_policies_hash(reqA))
    /\ keyB' = Some(Engine_compute_policies_hash(reqB))
    /\ encoder' = "Engine"
    /\ UNCHANGED <<mode, call_log, lock, enhancedVars, reqA, reqB, storeVars, histVars,
                   facadeVars>>

NextTag == TagCachedEngine \/ TagEngine

SpecTag == InitTag /\ [][NextTag]_vars

-----------------------------------------------------------------------------
(* History kept beside the facades' state.                                 *)

\* a key-indexed history, kept for the keys present in store d only
Restrict(h, d) == [k \in FacadeKeys |-> IF k \in Keys(d) THEN h[k] ELSE None]
Nothing == [k \in FacadeKeys |-> None]

\* the decision obtained and stored for key k, if it stands at time t
Standing(ob, k, t) ==
    IF ob[k] # None /\ t - ob[k][1].at < ob[k][1].ttl THEN Some(ob[k][1].v) ELSE None

\* callers that have not looked up yet no longer count as later calls for `keys`
Forget(thr, keys) ==
    [u \in DOMAIN thr |->
        IF thr[u].pc \in {"called", "tracked"} /\ thr[u].key[1] \in keys
        THEN [thr[u] EXCEPT !.expect = None] ELSE thr[u]]

\* callers of key k learn that an entry for k has been stored
Stored(thr, k) ==
    [u \in DOMAIN thr |->
        IF thr[u].key = Some(k) THEN [thr[u] EXCEPT !.clean = FALSE] ELSE thr[u]]

\* callers holding a result not stored yet learn that the store was cleared
Cleared(thr) ==
    [u \in DOMAIN thr |->
        IF thr[u].pc = "evaluated" THEN [thr[u] EXCEPT !.cleared = TRUE] ELSE thr[u]]

\* the evaluation behind a thread's result is of the policy set and of the
\* recorded version as they are now
Fresh(thread) ==
    /\ thread.evalPolicies = Some(policies)
    /\ thread.evalHash = current_policies_hash

-----------------------------------------------------------------------------
(* CachedEngine.is_authorized, step by step.                               *)

InitFacade ==
    /\ mode \in {"CachedEngine", "Engine"}
    /\ KeyIdle
    /\ max_size \in 0..MaxSize
    /\ now = 0
    /\ cache = <<>>
    /\ stats = NewStats
    /\ HistIdle
    /\ config \in Configs
    /\ policies = <<PermitAll>>
    /\ current_policies_hash = Some(compute_policies_hash(mode, policies))
    /\ hot_queries = [k \in FacadeKeys |-> 0]
    /\ refresh_queue = {}
    /\ tasks = {}
    /\ th = [t \in Threads |-> IdleThread]
    /\ inv = IdleInv
    /\ changes = MaxPolicyChanges
    /\ warm = None
    /\ evalUnder = Nothing
    /\ obtained = Nothing
    /\ TTLCache_cache = <<>>
    /\ TTLCache_timestamps = <<>>
    /\ lock = None
    /\ call_log = <<>>

\* the call begins: _generate_cache_key, and the read of the key's frequency
CachedEngine_call(t, r, ttl) ==
    /\ mode = "CachedEngine"
    /\ th[t].pc = "idle"
    /\ \E k \in {CachedEngine_generate_cache_key(r)} :
          th' = [th EXCEPT ![t] =
                    [IdleThread EXCEPT !.pc = "called", !.key = Some(k),
                        !.cache_ttl = ttl, !.frequency = hot_queries[k],
                        !.expect = Standing(obtained, k, now)]]
    /\ UNCHANGED <<mode, call_log, lock, enhancedVars, keyVars, storeVars, histVars,
                   config, policies, current_policies_hash, hot_queries,
                   refresh_queue, tasks, inv, changes, evalUnder, obtained,
                   warm>>

\* _track_query_frequency writes the frequency back; _compute_policies_hash
CachedEngine_track(t) ==
    /\ mode = "CachedEngine"
    /\ th[t].pc = "called"
    /\ hot_queries' = IF config.enable_hot_path_optimization
                      THEN [hot_queries EXCEPT ![th[t].key[1]] = th[t].frequency + 1]
                      ELSE hot_queries
    /\ th' = [th EXCEPT ![t].pc = "tracked",
                        ![t].hash = Some(CachedEngine_compute_policies_hash(policies))]
    /\ UNCHANGED <<mode, call_log, lock, enhancedVars, keyVars, storeVars, histVars,
                   config, policies, current_policies_hash, refresh_queue,
                   tasks, inv, changes, evalUnder, obtained, warm>>

\* self.cache.get(cache_key, current_policies_hash); a hit returns, after the
\* decision about a background refresh when enable_background_refresh is set
CachedEngine_lookup(t) ==
    /\ mode = "CachedEngine"
    /\ th[t].pc = "tracked"
    /\ \E k \in {th[t].key[1]} :
       \E r \in {LRUCache_get(cache, stats, k, th[t].hash[1], now)} :
          /\ cache' = r.cache
          /\ stats' = r.stats
          /\ lastOp' = GetOp(cache, k, th[t].hash[1], now, r.ret)
          /\ recency' = IF r.ret # None THEN Used(recency, k, Keys(r.cache))
                        ELSE StillPresent(recency, Keys(r.cache))
          /\ \E me \in {[th[t] EXCEPT
                              !.expect = IF Standing(obtained, k, now) = None
                                         THEN None ELSE @,
                              !.clean = TRUE]} :
                th' = [Forget(th, Keys(cache) \ Keys(r.cache)) EXCEPT ![t] =
                          IF r.ret = None THEN [me EXCEPT !.pc = "miss"]
                          ELSE IF config.enable_background_refresh
                          THEN [me EXCEPT !.pc = "hit", !.ret = r.ret]
                          ELSE Returned(me, r.ret, "none")]
          /\ evalUnder' = Restrict(evalUnder, r.cache)
          /\ obtained' = Restrict(obtained, r.cache)
    /\ UNCHANGED <<mode, call_log, lock, enhancedVars, keyVars, max_size, now, config,
                   policies, current_policies_hash, hot_queries, refresh_queue,
                   tasks, inv, changes, warm>>

\* self.engine.is_authorized(...): the Decision Source decides, or raises
CachedEngine_evaluate(t, ok) ==
    /\ mode = "CachedEngine"
    /\ th[t].pc = "miss"
    /\ th' = [th EXCEPT ![t] =
                IF ok
                THEN [@ EXCEPT !.pc = "evaluated", !.result = Some(Decide(policies)),
                               !.evaluated = TRUE, !.evalPolicies = Some(policies),
                               !.evalHash = current_policies_hash]
                ELSE Returned([@ EXCEPT !.evaluated = TRUE], None, "EvaluationError")]
    /\ UNCHANGED <<mode, call_log, lock, enhancedVars, keyVars, storeVars, histVars,
                   config, policies, current_policies_hash, hot_queries,
                   refresh_queue, tasks, inv, changes, evalUnder, obtained,
                   warm>>

\* ttl = cache_ttl or self._get_adaptive_ttl(cache_key); self.cache.put(...)
CachedEngine_store(t) ==
    /\ mode = "CachedEngine"
    /\ th[t].pc = "evaluated"
    /\ \E k \in {th[t].key[1]} :
       \E ttl \in {Or(th[t].cache_ttl, get_adaptive_ttl(config, hot_queries, k))} :
       \E r \in {LRUCache_put(cache, stats, max_size, k, th[t].result[1], ttl,
                              th[t].hash[1], now)} :
          /\ cache' = r.cache
          /\ stats' = r.stats
          /\ lastOp' = PutOp(cache, stats, max_size, recency, k, r.cache, r.stats, r.raised)
          /\ recency' = IF r.raised THEN StillPresent(recency, Keys(r.cache))
                        ELSE Used(recency, k, Keys(r.cache))
          /\ th' = [IF r.raised THEN th
                    ELSE Forget(Stored(th, k), Keys(cache) \ Keys(r.cache)) EXCEPT
                        ![t] = IF r.raised THEN Returned(@, None, "KeyError")
                               ELSE Returned(@, th[t].result, "none")]
          /\ evalUnder' = IF r.raised THEN evalUnder
                          ELSE [Restrict(evalUnder, r.cache) EXCEPT
                                    ![k] = th[t].evalPolicies]
          /\ obtained' = IF r.raised THEN obtained
                         ELSE [Restrict(obtained, r.cache) EXCEPT
                                  ![k] = IF Fresh(th[t])
                                         THEN Some([v |-> th[t].result[1], at |-> now,
                                                    ttl |-> ttl])
                                         ELSE @]
          /\ inv' = IF r.raised THEN inv ELSE [inv EXCEPT !.still = @ \ {k}]
    /\ UNCHANGED <<mode, call_log, lock, enhancedVars, keyVars, max_size, now, config,
                   policies, current_policies_hash, hot_queries, refresh_queue,
                   tasks, changes, warm>>

-----------------------------------------------------------------------------
(* Engine.is_authorized with caching enabled, step by step.                *)

\* variant: a miss is not counted as a request
GetMissNotRequest(d, st, k, recorded, t) ==
    IF HasKey(d, k) /\ ~is_expired(Lookup(d, k), t)
                    /\ is_valid_for_policies(Lookup(d, k), recorded)
    THEN [cache |-> Append(Delete(d, k), [Lookup(d, k) EXCEPT !.access_count = @ + 1]),
          stats |-> [st EXCEPT !.hits = @ + 1, !.total_requests = @ + 1],
          ret |-> Some(Lookup(d, k).result)]
    ELSE [cache |-> RemoveStale(d, k),
          stats |-> [st EXCEPT !.misses = @ + 1],
          ret |-> None]

\* Engine._get_cached_result: the lookup compares with the recorded version
Engine_get_cached_result(d, st, k, recorded, t) ==
    IF HasKey(d, k) /\ ~is_expired(Lookup(d, k), t)
                    /\ is_valid_for_policies(Lookup(d, k), recorded)
    THEN LET entry == Lookup(d, k)
             used == [entry EXCEPT !.access_count = @ + 1]
         IN  [cache |-> Append(Delete(d, k), used),
              stats |-> [st EXCEPT !.hits = @ + 1, !.total_requests = @ + 1],
              ret |-> Some(entry.result)]
    ELSE [cache |-> RemoveStale(d, k),
          stats |-> [st EXCEPT !.misses = @ + 1, !.total_requests = @ + 1],
          ret |-> None]

\* Engine._cache_result: the entry is tagged with the version recorded when it
\* is stored; effective_ttl = ttl or default_ttl
Engine_cache_result(d, st, size, k, result, ttl, default_ttl, recorded, t) ==
    \* the loop is LRUCache.put's
    LET ev == EvictLoop(d, st, size)
    IN  IF ev.raised THEN ev
        ELSE [cache |-> SetItem(ev.cache, k,
                            CacheEntry(k, result, t, Or(ttl, default_ttl), recorded)),
              stats |-> ev.stats,
              raised |-> FALSE]

\* the call begins: _generate_cache_key and _get_cached_result; a hit returns
Engine_lookup(t, r, ttl) ==
    /\ mode = "Engine"
    /\ th[t].pc = "idle"
    /\ \E k \in {Engine_generate_cache_key(r)} :
       \E g \in {Engine_get_cached_result(cache, stats, k, current_policies_hash[1], now)} :
          /\ cache' = g.cache
          /\ stats' = g.stats
          /\ lastOp' = GetOp(cache, k, current_policies_hash[1], now, g.ret)
          /\ recency' = IF g.ret # None THEN Used(recency, k, Keys(g.cache))
                        ELSE StillPresent(recency, Keys(g.cache))
          /\ \E me \in {[IdleThread EXCEPT !.key = Some(k), !.cache_ttl = ttl,
                                             !.expect = Standing(obtained, k, now)]} :
                th' = [Forget(th, Keys(cache) \ Keys(g.cache)) EXCEPT ![t] =
                          IF g.ret # None THEN Returned(me, g.ret, "none")
                          ELSE [me EXCEPT !.pc = "miss"]]
          /\ evalUnder' = Restrict(evalUnder, g.cache)
          /\ obtained' = Restrict(obtained, g.cache)
    /\ UNCHANGED <<mode, call_log, lock, enhancedVars, keyVars, max_size, now, config,
                   policies, current_policies_hash, hot_queries, refresh_queue,
                   tasks, inv, changes, warm>>

\* self._authorizer.is_authorized(...): the Decision Source decides, or raises
Engine_evaluate(t, ok) ==
    /\ mode = "Engine"
    /\ th[t].pc = "miss"
    /\ th' = [th EXCEPT ![t] =
                IF ok
                THEN [@ EXCEPT !.pc = "evaluated", !.result = Some(Decide(policies)),
                               !.evaluated = TRUE, !.evalPolicies = Some(policies),
                               !.evalHash = current_policies_hash]
                ELSE Returned([@ EXCEPT !.evaluated = TRUE], None, "EvaluationError")]
    /\ UNCHANGED <<mode, call_log, lock, enhancedVars, keyVars, storeVars, histVars,
                   config, policies, current_policies_hash, hot_queries,
                   refresh_queue, tasks, inv, changes, evalUnder, obtained,
                   warm>>

\* self._cache_result(cache_key, result, cache_ttl); return result
Engine_store(t) ==
    /\ mode = "Engine"
    /\ th[t].pc = "evaluated"
    /\ \E k \in {th[t].key[1]} :
       \E r \in {Engine_cache_result(cache, stats, max_size, k, th[t].result[1],
                                     th[t].cache_ttl, config.default_ttl,
                                     current_policies_hash[1], now)} :
          /\ cache' = r.cache
          /\ stats' = r.stats
          /\ lastOp' = PutOp(cache, stats, max_size, recency, k, r.cache, r.stats, r.raised)
          /\ recency' = IF r.raised THEN StillPresent(recency, Keys(r.cache))
                        ELSE Used(recency, k, Keys(r.cache))
          /\ th' = [IF r.raised THEN th
                    ELSE Forget(Stored(th, k), Keys(cache) \ Keys(r.cache)) EXCEPT
                        ![t] = IF r.raised THEN Returned(@, None, "KeyError")
                               ELSE Returned(@, th[t].result, "none")]
          /\ evalUnder' = IF r.raised THEN evalUnder
                          ELSE [Restrict(evalUnder, r.cache) EXCEPT
                                    ![k] = th[t].evalPolicies]
          /\ obtained' = IF r.raised THEN obtained
                         ELSE [Restrict(obtained, r.cache) EXCEPT
                                  ![k] = IF Fresh(th[t])
                                         THEN Some([v |-> th[t].result[1], at |-> now,
                                                    ttl |-> Or(th[t].cache_ttl,
                                                               config.default_ttl)])
                                         ELSE @]
          /\ inv' = IF r.raised THEN inv ELSE [inv EXCEPT !.still = @ \ {k}]
    /\ UNCHANGED <<mode, call_log, lock, enhancedVars, keyVars, max_size, now, config,
                   policies, current_policies_hash, hot_queries, refresh_queue,
                   tasks, changes, warm>>

-----------------------------------------------------------------------------
(* Policy changes, invalidate_policy_cache and clear.                      *)

\* history: the keys of store d whose entries are tagged old
TaggedKeys(d, old) == { d[i].key : i \in { j \in DOMAIN d : d[j].policies_hash = old } }

\* a policy is added to the policy set; Engine.add_policy goes on to call
\* invalidate_policy_cache
add_policy(p) ==
    /\ mode \in {"CachedEngine", "Engine"}
    /\ p.id \notin PolicyIds(policies)
    /\ inv.pc = "idle"
    /\ changes > 0
    /\ changes' = changes - 1
    /\ policies' = PolicySet_add(policies, p)
    /\ inv' = IF mode = "Engine" THEN [IdleInv EXCEPT !.pc = "called"] ELSE inv
    /\ th' = Forget(th, FacadeKeys)
    /\ obtained' = Nothing
    /\ UNCHANGED <<mode, call_log, lock, enhancedVars, keyVars, storeVars, histVars,
                   config, current_policies_hash, hot_queries, refresh_queue,
                   tasks, evalUnder, warm>>

\* a policy is removed from the policy set
remove_policy(id) ==
    /\ mode \in {"CachedEngine", "Engine"}
    /\ id \in PolicyIds(policies)
    /\ inv.pc = "idle"
    /\ changes > 0
    /\ changes' = changes - 1
    /\ policies' = PolicySet_remove(policies, id)
    /\ th' = Forget(th, FacadeKeys)
    /\ obtained' = Nothing
    /\ UNCHANGED <<mode, call_log, lock, enhancedVars, keyVars, storeVars, histVars,
                   config, current_policies_hash, hot_queries, refresh_queue,
                   tasks, inv, evalUnder, warm>>

\* the application calls invalidate_policy_cache
invalidate_policy_cache_call ==
    /\ mode \in {"CachedEngine", "Engine"}
    /\ inv.pc = "idle"
    /\ inv' = [IdleInv EXCEPT !.pc = "called"]
    /\ UNCHANGED <<mode, call_log, lock, enhancedVars, keyVars, storeVars, histVars,
                   config, policies, current_policies_hash, hot_queries,
                   refresh_queue, tasks, th, changes, evalUnder, obtained,
                   warm>>

\* old_hash = the recorded version; new_hash = _compute_policies_hash();
\* nothing more is done when invalidation is disabled or the two are equal
invalidate_policy_cache_compare ==
    /\ inv.pc = "called"
    /\ UNCHANGED <<mode, call_log, lock, enhancedVars, keyVars, storeVars, histVars,
                   config, policies, current_policies_hash, hot_queries,
                   refresh_queue, tasks, th, changes, evalUnder, obtained,
                   warm>>
    /\ \E new \in {Some(compute_policies_hash(mode, policies))} :
          inv' = IF ~config.enable_policy_aware_invalidation
                 THEN [IdleInv EXCEPT !.outcome = "disabled"]
                 ELSE IF current_policies_hash = new
                 THEN [IdleInv EXCEPT !.outcome = "unchanged",
                                      !.old = current_policies_hash, !.new = new,
                                      !.gone = Keys(cache) \ Keys(cache')]
                 ELSE [IdleInv EXCEPT !.pc = "remove",
                                      !.old = current_policies_hash, !.new = new]

\* Engine.invalidate_policy_cache: keys_to_remove, and their deletion
Engine_remove_by_hash(d, old_hash) ==
    SelectSeq(d, LAMBDA e : e.policies_hash # old_hash)

\* the entries tagged old_hash are removed, under the lock
invalidate_policy_cache_remove ==
    /\ inv.pc = "remove"
    /\ cache' = IF mode = "Engine" THEN Engine_remove_by_hash(cache, inv.old[1])
                ELSE LRUCache_invalidate_by_policy_hash(cache, inv.old[1])
    /\ lastOp' = BulkOp("invalidate", cache, cache')
    /\ recency' = StillPresent(recency, Keys(cache'))
    /\ inv' = [inv EXCEPT !.pc = "record",
                          !.tagged = TaggedKeys(cache, inv.old[1]),
                          !.gone = Keys(cache) \ Keys(cache'),
                          !.kept = Keys(cache'),
                          !.still = Keys(cache) \ Keys(cache')]
    /\ th' = Forget(th, Keys(cache) \ Keys(cache'))
    /\ evalUnder' = Restrict(evalUnder, cache')
    /\ obtained' = Restrict(obtained, cache')
    /\ UNCHANGED <<mode, call_log, lock, enhancedVars, keyVars, max_size, now, stats,
                   config, policies, current_policies_hash, hot_queries,
                   refresh_queue, tasks, changes, warm>>

\* the recorded version becomes new_hash
invalidate_policy_cache_record ==
    /\ inv.pc = "record"
    /\ current_policies_hash' = inv.new
    /\ inv' = [inv EXCEPT !.pc = "idle", !.outcome = "changed"]
    /\ th' = Forget(th, FacadeKeys)
    /\ obtained' = Nothing
    /\ UNCHANGED <<mode, call_log, lock, enhancedVars, keyVars, storeVars, histVars,
                   config, policies, hot_queries, refresh_queue, tasks,
                   changes, evalUnder, warm>>

\* Engine.invalidate_cache / LRUCache.clear
clear_cache ==
    /\ mode \in {"CachedEngine", "Engine"}
    /\ cache # <<>>
    /\ cache' = LRUCache_clear(cache)
    /\ lastOp' = BulkOp("clear", cache, cache')
    /\ recency' = <<>>
    /\ th' = Cleared(Forget(th, FacadeKeys))
    /\ evalUnder' = Nothing
    /\ obtained' = Nothing
    /\ UNCHANGED <<mode, call_log, lock, enhancedVars, keyVars, max_size, now, stats,
                   config, policies, current_policies_hash, hot_queries,
                   refresh_queue, tasks, inv, changes, warm>>

NextFacade ==
    \/ \E t \in DOMAIN th, r \in FacadeRequests, ttl \in CacheTtls :
          CachedEngine_call(t, r, ttl)
    \/ \E t \in DOMAIN th : CachedEngine_track(t)
    \/ \E t \in DOMAIN th : CachedEngine_lookup(t)
    \/ \E t \in DOMAIN th, ok \in BOOLEAN : CachedEngine_evaluate(t, ok)
    \/ \E t \in DOMAIN th : CachedEngine_store(t)
    \/ \E t \in DOMAIN th, r \in FacadeRequests, ttl \in CacheTtls :
          Engine_lookup(t, r, ttl)
    \/ \E t \in DOMAIN th, ok \in BOOLEAN : Engine_evaluate(t, ok)
    \/ \E t \in DOMAIN th : Engine_store(t)
    \/ \E p \in Policies : add_policy(p)
    \/ \E id \in PolicyIds(policies) : remove_policy(id)
    \/ invalidate_policy_cache_call
    \/ invalidate_policy_cache_compare
    \/ invalidate_policy_cache_remove
    \/ invalidate_policy_cache_record
    \/ clear_cache

SpecFacade == InitFacade /\ [][NextFacade]_vars

\* Three callers of one request, and a policy that is added while they run.
RaceThreads == {"t1", "t2", "t3"}
RaceRequest ==
    [principal |-> <<"a">>, action |-> <<"a">>, resource |-> <<"a">>,
     context |-> NoMap, entities |-> NoMap]

InitRace ==
    /\ mode \in {"CachedEngine", "Engine"}
    /\ KeyIdle
    /\ max_size = MaxSize
    /\ now = 0
    /\ cache = <<>>
    /\ stats = NewStats
    /\ HistIdle
    /\ config \in Configs
    /\ policies = <<PermitAll>>
    /\ current_policies_hash = Some(compute_policies_hash(mode, policies))
    /\ hot_queries = [k \in FacadeKeys |-> 0]
    /\ refresh_queue = {}
    /\ tasks = {}
    /\ th = [t \in RaceThreads |-> IdleThread]
    /\ inv = IdleInv
    /\ changes = MaxPolicyChanges
    /\ warm = None
    /\ evalUnder = Nothing
    /\ obtained = Nothing
    /\ TTLCache_cache = <<>>
    /\ TTLCache_timestamps = <<>>
    /\ lock = None
    /\ call_log = <<>>

NextRace ==
    \/ \E t \in DOMAIN th : CachedEngine_call(t, RaceRequest, None)
    \/ \E t \in DOMAIN th : CachedEngine_track(t)
    \/ \E t \in DOMAIN th : CachedEngine_lookup(t)
    \/ \E t \in DOMAIN th : CachedEngine_evaluate(t, TRUE)
    \/ \E t \in DOMAIN th : CachedEngine_store(t)
    \/ \E t \in DOMAIN th : Engine_lookup(t, RaceRequest, None)
    \/ \E t \in DOMAIN th : Engine_evaluate(t, TRUE)
    \/ \E t \in DOMAIN th : Engine_store(t)
    \/ add_policy(ForbidAll)
    \/ invalidate_policy_cache_call
    \/ invalidate_policy_cache_compare
    \/ invalidate_policy_cache_remove
    \/ invalidate_policy_cache_record

SpecRace == InitRace /\ [][NextRace]_vars

-----------------------------------------------------------------------------
(* Construction of the caches, followed by their first requests.           *)

\* the max_size and default_ttl arguments the constructors are called with
ConstructSizes == 0..MaxSize
ConstructConfigs == { [c EXCEPT !.default_ttl = ttl] : c \in Configs, ttl \in {0, 2} }

InitConstruct ==
    /\ mode = "none"
    /\ KeyIdle
    /\ StoreIdle
    /\ HistIdle
    /\ FacadeIdle

\* LRUCache.__init__ stores max_size as given
LRUCache_init(size) ==
    /\ mode = "none"
    /\ mode' = "LRUCache"
    /\ max_size' = size
    /\ cache' = <<>>
    /\ stats' = NewStats
    /\ UNCHANGED <<lock, call_log, enhancedVars, keyVars, now, histVars, facadeVars>>

\* IntelligentCacheConfig.__init__ and CachedEngine.__init__, or CacheConfig
\* and Engine.__init__ / Engine._init_cache: the arguments are stored as given
Facade_init(m, cfg, size) ==
    /\ mode = "none"
    /\ mode' = m
    /\ config' = cfg
    /\ max_size' = size
    /\ cache' = <<>>
    /\ stats' = NewStats
    /\ policies' = <<PermitAll>>
    /\ current_policies_hash' = Some(compute_policies_hash(m, policies'))
    /\ hot_queries' = [k \in FacadeKeys |-> 0]
    /\ th' = [t \in {"t1"} |-> IdleThread]
    /\ inv' = IdleInv
    /\ evalUnder' = Nothing
    /\ obtained' = Nothing
    /\ UNCHANGED <<lock, call_log, enhancedVars, keyVars, now, histVars, refresh_queue,
                   tasks, changes, warm>>

CachedEngine_init(cfg, size) == Facade_init("CachedEngine", cfg, size)
Engine_init(cfg, size) == Facade_init("Engine", cfg, size)

NextConstruct ==
    \/ \E size \in ConstructSizes : LRUCache_init(size)
    \/ \E cfg \in ConstructConfigs, size \in ConstructSizes : CachedEngine_init(cfg, size)
    \/ \E cfg \in ConstructConfigs, size \in ConstructSizes : Engine_init(cfg, size)
    \/ \E k \in StoreKeys : StoreGet(k, "h1")
    \/ \E k \in StoreKeys, ttl \in StoreTtls : StorePut(k, StoreDecision(k, "h1"), ttl, "h1")
    \/ \E t \in DOMAIN th, r \in FacadeRequests : CachedEngine_call(t, r, None)
    \/ \E t \in DOMAIN th : CachedEngine_track(t)
    \/ \E t \in DOMAIN th : CachedEngine_lookup(t)
    \/ \E t \in DOMAIN th, ok \in BOOLEAN : CachedEngine_evaluate(t, ok)
    \/ \E t \in DOMAIN th : CachedEngine_store(t)
    \/ \E t \in DOMAIN th, r \in FacadeRequests : Engine_lookup(t, r, None)
    \/ \E t \in DOMAIN th, ok \in BOOLEAN : Engine_evaluate(t, ok)
    \/ \E t \in DOMAIN th : Engine_store(t)

SpecConstruct == InitConstruct /\ [][NextConstruct]_vars

-----------------------------------------------------------------------------
(* CachedEngine.warm_cache: one thread issues is_authorized for each       *)
(* request of a batch, in a try / except that logs the failure.            *)

\* the longest batch passed to warm_cache
MaxBatch == 2

Batches == UNION { [1..n -> FacadeRequests] : n \in 0..MaxBatch }

\* the thread before it calls warm_cache
\* (queries: the batch; failing: the requests for which the Decision Source
\* raises; queue: the requests not yet issued; log: history of the requests
\* issued, how each ended, and whether its entry has been evicted since)
IdleWarm == [pc |-> "idle", queries |-> <<>>, failing |-> {}, queue |-> <<>>,
             log |-> <<>>]

InitWarm ==
    /\ mode = "CachedEngine"
    /\ KeyIdle
    /\ max_size \in 0..MaxSize
    /\ now = 0
    /\ cache = <<>>
    /\ stats = NewStats
    /\ HistIdle
    /\ config \in Configs
    /\ policies = <<PermitAll>>
    /\ current_policies_hash = Some(compute_policies_hash(mode, policies))
    /\ hot_queries = [k \in FacadeKeys |-> 0]
    /\ refresh_queue = {}
    /\ tasks = {}
    /\ th = [t \in {"w"} |-> IdleThread]
    /\ inv = IdleInv
    /\ changes = 0
    /\ warm = IdleWarm
    /\ evalUnder = Nothing
    /\ obtained = Nothing
    /\ TTLCache_cache = <<>>
    /\ TTLCache_timestamps = <<>>
    /\ lock = None
    /\ call_log = <<>>

\* warm_cache(queries) is called
warm_cache_call(queries, failing) ==
    /\ mode = "CachedEngine"
    /\ warm # None
    /\ warm.pc = "idle"
    /\ warm' = [warm EXCEPT !.pc = "running", !.queries = queries, !.queue = queries,
                            !.failing = failing]
    /\ UNCHANGED <<mode, call_log, lock, enhancedVars, keyVars, storeVars, histVars,
                   config, policies, current_policies_hash, hot_queries,
                   refresh_queue, tasks, th, inv, changes, evalUnder, obtained>>

\* the body of the loop calls self.is_authorized for the next request
warm_cache_issue ==
    /\ warm # None
    /\ warm.pc = "running"
    /\ warm.queue # <<>>
    /\ CachedEngine_call("w", Head(warm.queue), None)

\* the Decision Source raises for the requests in `failing`
warm_cache_evaluate ==
    /\ warm # None
    /\ warm.pc = "running"
    /\ CachedEngine_evaluate("w", Head(warm.queue) \notin warm.failing)

\* variant: the first failure ends the batch
AbortBatch(queue) == <<>>

\* except Exception: the failure is logged and the loop goes on
AfterFailure(queue) == Tail(queue)

\* history: the entries of the log whose keys a put has just evicted
MarkEvicted(log, gone) ==
    [i \in DOMAIN log |-> IF log[i].key \in gone THEN [log[i] EXCEPT !.evicted = TRUE]
                          ELSE log[i]]

\* is_authorized has returned or raised: the loop moves to the next request
warm_cache_next ==
    /\ warm # None
    /\ warm.pc = "running"
    /\ th["w"].pc = "done"
    /\ \E gone \in {IF lastOp.op = "put" THEN lastOp.gone ELSE {}} :
          warm' = [warm EXCEPT
                      !.queue = IF th["w"].error = "none" THEN Tail(@)
                                ELSE AfterFailure(@),
                      !.log = Append(MarkEvicted(@, gone),
                                     [request |-> Head(warm.queue),
                                      key |-> th["w"].key[1],
                                      error |-> th["w"].error,
                                      evicted |-> FALSE])]
    /\ th' = [th EXCEPT !["w"] = IdleThread]
    /\ UNCHANGED <<mode, call_log, lock, enhancedVars, keyVars, storeVars, histVars,
                   config, policies, current_policies_hash, hot_queries,
                   refresh_queue, tasks, inv, changes, evalUnder, obtained>>

\* the loop is over: warm_cache returns
warm_cache_return ==
    /\ warm # None
    /\ warm.pc = "running"
    /\ warm.queue = <<>>
    /\ warm' = [warm EXCEPT !.pc = "returned"]
    /\ UNCHANGED <<mode, call_log, lock, enhancedVars, keyVars, storeVars, histVars,
                   config, policies, current_policies_hash, hot_queries,
                   refresh_queue, tasks, th, inv, changes, evalUnder, obtained>>

NextWarm ==
    \/ \E queries \in Batches, failing \in SUBSET FacadeRequests :
          warm_cache_call(queries, failing)
    \/ warm_cache_issue
    \/ CachedEngine_track("w")
    \/ CachedEngine_lookup("w")
    \/ warm_cache_evaluate
    \/ CachedEngine_store("w")
    \/ warm_cache_next
    \/ warm_cache_return

SpecWarm == InitWarm /\ [][NextWarm]_vars

-----------------------------------------------------------------------------
(* EnhancedEngine (src/cedar_py/builders.py) with caching enabled: its     *)
(* TTLCache keeps two dicts and no lock; is_authorized runs on executor    *)
(* threads, which may be switched between any two dict operations.         *)

\* dict operations on a sequence of <<key, value>> items
dict_keys(d) == { d[i][1] : i \in DOMAIN d }
dict_getitem(d, k) == d[CHOOSE i \in DOMAIN d : d[i][1] = k][2]
dict_delitem(d, k) == SelectSeq(d, LAMBDA it : it[1] # k)
dict_setitem(d, k, v) ==
    IF k \in dict_keys(d)
    THEN [i \in DOMAIN d |-> IF d[i][1] = k THEN <<k, v>> ELSE d[i]]
    ELSE Append(d, <<k, v>>)

\* min(self._timestamps.keys(), key=lambda k: self._timestamps[k]): the first
\* key, in insertion order, among those with the least timestamp
min_by_timestamp(d) ==
    d[CHOOSE i \in DOMAIN d :
        /\ \A j \in DOMAIN d : d[i][2] <= d[j][2]
        /\ \A j \in DOMAIN d : d[j][2] = d[i][2] => i <= j][1]

\* str(context.data): the repr of a dict, {'k1': 'v1'}
ReprDict(items) ==
    <<"{">> \o Join([i \in DOMAIN items |->
                        <<"'" \o items[i][1] \o "'", ": ", "'" \o items[i][2] \o "'">>],
                    ", ") \o <<"}">>

\* EnhancedEngine._generate_cache_key
EnhancedEngine_generate_cache_key(r) ==
    LET c_str == ReprDict(IF r.context.present THEN r.context.data ELSE <<>>)
        e_str == IF r.entities.present /\ r.entities.data # <<>>
                 THEN StrList(Sorted(r.entities.data)) ELSE <<"{", "}">>
    IN  Sha256_16(Join(<<r.principal, r.action, r.resource, c_str, e_str>>, "|"))

\* builders.CacheConfig, enabled
EnhancedConfigs ==
    { [enabled |-> TRUE, decision_cache_size |-> n, decision_ttl_seconds |-> 1] :
        n \in 1..MaxSize }

\* a thread of the executor before it calls is_authorized
EnhancedIdleThread ==
    [pc |-> "idle", key |-> None, oldest_key |-> None, result |-> None,
     ret |-> None, error |-> "none"]

\* the call has returned ret, or raised error
EnhancedReturned(thread, ret, error) ==
    [EnhancedIdleThread EXCEPT !.pc = "done", !.key = thread.key, !.ret = ret,
                               !.error = error]

InitEnhanced ==
    /\ mode = "EnhancedEngine"
    /\ KeyIdle
    /\ config \in EnhancedConfigs
    /\ max_size = config.decision_cache_size
    /\ now = 0
    /\ cache = <<>>
    /\ stats = NewStats
    /\ HistIdle
    /\ policies = <<PermitAll>>
    /\ current_policies_hash = None
    /\ hot_queries = <<>>
    /\ refresh_queue = {}
    /\ tasks = {}
    /\ th = [t \in Threads |-> EnhancedIdleThread]
    /\ inv = None
    /\ changes = 0
    /\ warm = None
    /\ evalUnder = <<>>
    /\ obtained = <<>>
    /\ TTLCache_cache = <<>>
    /\ TTLCache_timestamps = <<>>
    /\ lock = None
    /\ call_log = <<>>

\* a step of thread t that changes its own locals only
EnhancedLocal(t, thread) ==
    /\ th' = [th EXCEPT ![t] = thread]
    /\ UNCHANGED <<TTLCache_cache, TTLCache_timestamps>>

EnhancedFrame ==
    UNCHANGED <<mode, call_log, lock, keyVars, storeVars, histVars, config, policies,
                current_policies_hash, hot_queries, refresh_queue, tasks, inv,
                changes, warm, evalUnder, obtained>>

\* is_authorized: cache_key = self._generate_cache_key(...)
EnhancedEngine_call(t, r) ==
    /\ mode = "EnhancedEngine"
    /\ th[t].pc = "idle"
    /\ EnhancedLocal(t, [th[t] EXCEPT !.pc = "get_contains",
                            !.key = Some(EnhancedEngine_generate_cache_key(r))])
    /\ EnhancedFrame

\* TTLCache.get: if key in self._cache
TTLCache_get_contains(t) ==
    /\ th[t].pc = "get_contains"
    /\ EnhancedLocal(t, [th[t] EXCEPT !.pc =
            IF th[t].key[1] \in dict_keys(TTLCache_cache) THEN "get_timestamp"
            ELSE "miss"])
    /\ EnhancedFrame

\* TTLCache.get: if time() - self._timestamps[key] < self.ttl
TTLCache_get_timestamp(t) ==
    /\ th[t].pc = "get_timestamp"
    /\ EnhancedLocal(t,
          IF th[t].key[1] \notin dict_keys(TTLCache_timestamps)
          THEN EnhancedReturned(th[t], None, "KeyError")
          ELSE IF now - dict_getitem(TTLCache_timestamps, th[t].key[1])
                     < config.decision_ttl_seconds
          THEN [th[t] EXCEPT !.pc = "get_value"]
          ELSE [th[t] EXCEPT !.pc = "get_del_cache"])
    /\ EnhancedFrame

\* TTLCache.get: return self._cache[key]; the decision is not None: a hit
TTLCache_get_value(t) ==
    /\ th[t].pc = "get_value"
    /\ EnhancedLocal(t,
          IF th[t].key[1] \notin dict_keys(TTLCache_cache)
          THEN EnhancedReturned(th[t], None, "KeyError")
          ELSE EnhancedReturned(th[t],
                                Some(dict_getitem(TTLCache_cache, th[t].key[1])), "none"))
    /\ EnhancedFrame

\* TTLCache.get, expired entry: del self._cache[key]
TTLCache_get_del_cache(t) ==
    /\ th[t].pc = "get_del_cache"
    /\ IF th[t].key[1] \notin dict_keys(TTLCache_cache)
       THEN EnhancedLocal(t, EnhancedReturned(th[t], None, "KeyError"))
       ELSE /\ TTLCache_cache' = dict_delitem(TTLCache_cache, th[t].key[1])
            /\ th' = [th EXCEPT ![t].pc = "get_del_timestamp"]
            /\ UNCHANGED TTLCache_timestamps
    /\ EnhancedFrame

\* TTLCache.get, expired entry: del self._timestamps[key]; return None
TTLCache_get_del_timestamp(t) ==
    /\ th[t].pc = "get_del_timestamp"
    /\ IF th[t].key[1] \notin dict_keys(TTLCache_timestamps)
       THEN EnhancedLocal(t, EnhancedReturned(th[t], None, "KeyError"))
       ELSE /\ TTLCache_timestamps' = dict_delitem(TTLCache_timestamps, th[t].key[1])
            /\ th' = [th EXCEPT ![t].pc = "miss"]
            /\ UNCHANGED TTLCache_cache
    /\ EnhancedFrame

\* is_authorized: self._base_engine.is_authorized(...) decides, or raises
EnhancedEngine_evaluate(t, ok) ==
    /\ th[t].pc = "miss"
    /\ EnhancedLocal(t,
          IF ok THEN [th[t] EXCEPT !.pc = "set_len", !.result = Some(Decide(policies))]
          ELSE EnhancedReturned(th[t], None, "EvaluationError"))
    /\ EnhancedFrame

\* TTLCache.set: if len(self._cache) >= self.maxsize
TTLCache_set_len(t) ==
    /\ th[t].pc = "set_len"
    /\ EnhancedLocal(t, [th[t] EXCEPT !.pc =
            IF Len(TTLCache_cache) >= max_size THEN "set_min" ELSE "set_value"])
    /\ EnhancedFrame

\* TTLCache.set: oldest_key = min(...); min of no key raises ValueError
TTLCache_set_min(t) ==
    /\ th[t].pc = "set_min"
    /\ EnhancedLocal(t,
          IF TTLCache_timestamps = <<>>
          THEN EnhancedReturned(th[t], None, "ValueError")
          ELSE [th[t] EXCEPT !.pc = "set_del_cache",
                             !.oldest_key = Some(min_by_timestamp(TTLCache_timestamps))])
    /\ EnhancedFrame

\* TTLCache.set: del self._cache[oldest_key]
TTLCache_set_del_cache(t) ==
    /\ th[t].pc = "set_del_cache"
    /\ IF th[t].oldest_key[1] \notin dict_keys(TTLCache_cache)
       THEN EnhancedLocal(t, EnhancedReturned(th[t], None, "KeyError"))
       ELSE /\ TTLCache_cache' = dict_delitem(TTLCache_cache, th[t].oldest_key[1])
            /\ th' = [th EXCEPT ![t].pc = "set_del_timestamp"]
            /\ UNCHANGED TTLCache_timestamps
    /\ EnhancedFrame

\* TTLCache.set: del self._timestamps[oldest_key]
TTLCache_set_del_timestamp(t) ==
    /\ th[t].pc = "set_del_timestamp"
    /\ IF th[t].oldest_key[1] \notin dict_keys(TTLCache_timestamps)
       THEN EnhancedLocal(t, EnhancedReturned(th[t], None, "KeyError"))
       ELSE /\ TTLCache_timestamps' = dict_delitem(TTLCache_timestamps, th[t].oldest_key[1])
            /\ th' = [th EXCEPT ![t].pc = "set_value", ![t].oldest_key = None]
            /\ UNCHANGED TTLCache_cache
    /\ EnhancedFrame

\* TTLCache.set: self._cache[key] = value
TTLCache_set_value(t) ==
    /\ th[t].pc = "set_value"
    /\ TTLCache_cache' = dict_setitem(TTLCache_cache, th[t].key[1], th[t].result[1])
    /\ th' = [th EXCEPT ![t].pc = "set_timestamp"]
    /\ UNCHANGED TTLCache_timestamps
    /\ EnhancedFrame

\* TTLCache.set: self._timestamps[key] = time(); is_authorized returns result
TTLCache_set_timestamp(t) ==
    /\ th[t].pc = "set_timestamp"
    /\ TTLCache_timestamps' = dict_setitem(TTLCache_timestamps, th[t].key[1], now)
    /\ th' = [th EXCEPT ![t] = EnhancedReturned(th[t], th[t].result, "none")]
    /\ UNCHANGED TTLCache_cache
    /\ EnhancedFrame

NextEnhanced ==
    \/ \E t \in DOMAIN th, r \in FacadeRequests : EnhancedEngine_call(t, r)
    \/ \E t \in DOMAIN th : TTLCache_get_contains(t)
    \/ \E t \in DOMAIN th : TTLCache_get_timestamp(t)
    \/ \E t \in DOMAIN th : TTLCache_get_value(t)
    \/ \E t \in DOMAIN th : TTLCache_get_del_cache(t)
    \/ \E t \in DOMAIN th : TTLCache_get_del_timestamp(t)
    \/ \E t \in DOMAIN th, ok \in BOOLEAN : EnhancedEngine_evaluate(t, ok)
    \/ \E t \in DOMAIN th : TTLCache_set_len(t)
    \/ \E t \in DOMAIN th : TTLCache_set_min(t)
    \/ \E t \in DOMAIN th : TTLCache_set_del_cache(t)
    \/ \E t \in DOMAIN th : TTLCache_set_del_timestamp(t)
    \/ \E t \in DOMAIN th : TTLCache_set_value(t)
    \/ \E t \in DOMAIN th : TTLCache_set_timestamp(t)
    \/ Tick

SpecEnhanced == InitEnhanced /\ [][NextEnhanced]_vars

-----------------------------------------------------------------------------
(* LRUCache under concurrent callers: every method runs its body inside    *)
(* `with self._lock`, statement by statement.                              *)

\* variant: the lock is granted whoever holds it
AlwaysAcquire(l, t) == TRUE

\* threading.RLock: granted when free, or when the caller already holds it
CanAcquire(l, t) == l = None \/ l = Some(t)

\* the methods a thread may call, with their arguments
LockOps ==
    [name : {"get"}, key : {<<"A">>, <<"B">>}, hash : StoreHashes]
    \cup [name : {"put"}, key : {<<"A">>, <<"B">>}, hash : StoreHashes]
    \cup [name : {"invalidate"}, key : {None}, hash : StoreHashes]
    \cup [name : {"clear"}, key : {None}, hash : {"h1"}]

\* a thread outside the methods of the store
\* (entry, keys_to_remove: locals; snap: history, the store and the statistics
\* as they were when the thread took the lock; atomic: history, whether the
\* call left the store, the statistics and its result as the method run in one
\* piece on snap would have)
LockIdleThread ==
    [pc |-> "idle", op |-> None, entry |-> None, keys_to_remove |-> {},
     snap |-> None, ret |-> None, error |-> "none", atomic |-> TRUE]

\* what the method run in one piece on the store of snap leaves and returns
AtomicOutcome(op, snap, size, t) ==
    IF op.name = "get"
    THEN LET r == LRUCache_get(snap.cache, snap.stats, op.key, op.hash, t)
         IN  [cache |-> r.cache, stats |-> r.stats, ret |-> r.ret, error |-> "none"]
    ELSE IF op.name = "put"
    THEN LET r == LRUCache_put(snap.cache, snap.stats, size, op.key,
                               StoreDecision(op.key, op.hash), 1, op.hash, t)
         IN  [cache |-> r.cache, stats |-> r.stats, ret |-> None,
              error |-> IF r.raised THEN "KeyError" ELSE "none"]
    ELSE IF op.name = "invalidate"
    THEN [cache |-> LRUCache_invalidate_by_policy_hash(snap.cache, op.hash),
          stats |-> snap.stats, ret |-> None, error |-> "none"]
    ELSE [cache |-> LRUCache_clear(snap.cache), stats |-> snap.stats, ret |-> None,
          error |-> "none"]

\* the thread leaves the `with` block: the method returns ret or raises error
LockReturned(thread, d, st, ret, error) ==
    [LockIdleThread EXCEPT
        !.pc = "done", !.op = thread.op, !.ret = ret, !.error = error,
        !.atomic = LET e == AtomicOutcome(thread.op[1], thread.snap[1], max_size, now)
                   IN  e.cache = d /\ e.stats = st /\ e.ret = ret /\ e.error = error]

InitLock ==
    /\ mode = "LRUCache"
    /\ KeyIdle
    /\ max_size \in 1..MaxSize
    /\ now = 0
    /\ cache = <<>>
    /\ stats = NewStats
    /\ HistIdle
    /\ config = None /\ policies = <<>> /\ current_policies_hash = None
    /\ hot_queries = <<>> /\ refresh_queue = {} /\ tasks = {}
    /\ th = [t \in RaceThreads |-> LockIdleThread]
    /\ inv = None /\ changes = 0 /\ warm = None
    /\ evalUnder = <<>> /\ obtained = <<>>
    /\ TTLCache_cache = <<>> /\ TTLCache_timestamps = <<>>
    /\ lock = None
    /\ call_log = <<>>

LockFrame ==
    UNCHANGED <<mode, call_log, enhancedVars, keyVars, max_size, now, histVars, config,
                policies, current_policies_hash, hot_queries, refresh_queue,
                tasks, inv, changes, warm, evalUnder, obtained>>

\* a thread calls a method and enters `with self._lock`
LRUCache_acquire(t, op) ==
    /\ th[t].pc = "idle"
    /\ CanAcquire(lock, t)
    /\ lock' = Some(t)
    /\ th' = [th EXCEPT ![t] =
                [LockIdleThread EXCEPT
                    !.pc = op.name, !.op = Some(op),
                    !.snap = Some([cache |-> cache, stats |-> stats])]]
    /\ UNCHANGED <<cache, stats>>
    /\ LockFrame

\* get: if key in self._cache: entry = self._cache[key]; otherwise the miss
\* is counted and None is returned
LRUCache_get_find(t) ==
    /\ th[t].pc = "get"
    /\ IF HasKey(cache, th[t].op[1].key)
       THEN /\ th' = [th EXCEPT ![t].pc = "get_check",
                                ![t].entry = Some(Lookup(cache, th[t].op[1].key))]
            /\ UNCHANGED <<cache, stats, lock>>
       ELSE /\ stats' = [stats EXCEPT !.misses = @ + 1, !.total_requests = @ + 1]
            /\ th' = [th EXCEPT ![t] = LockReturned(th[t], cache, stats', None, "none")]
            /\ lock' = None
            /\ UNCHANGED cache
    /\ LockFrame

\* get: if not entry.is_expired() and entry.is_valid_for_policies(policies_hash)
LRUCache_get_check(t) ==
    /\ th[t].pc = "get_check"
    /\ th' = [th EXCEPT ![t].pc =
                IF ~is_expired(th[t].entry[1], now)
                   /\ is_valid_for_policies(th[t].entry[1], th[t].op[1].hash)
                THEN "get_hit" ELSE "get_remove"]
    /\ UNCHANGED <<cache, stats, lock>>
    /\ LockFrame

\* get, valid entry: self._cache.move_to_end(key) (KeyError when the key is
\* gone); entry.access_count += 1; the hit is counted; return entry.result
LRUCache_get_hit(t) ==
    /\ th[t].pc = "get_hit"
    /\ \E k \in {th[t].op[1].key} :
          IF ~HasKey(cache, k)
          THEN /\ th' = [th EXCEPT ![t] =
                            LockReturned(th[t], cache, stats, None, "KeyError")]
               /\ UNCHANGED <<cache, stats>>
          ELSE /\ cache' = Append(Delete(cache, k),
                                  IF Lookup(cache, k) = th[t].entry[1]
                                  THEN [Lookup(cache, k) EXCEPT !.access_count = @ + 1]
                                  ELSE Lookup(cache, k))
               /\ stats' = [stats EXCEPT !.hits = @ + 1, !.total_requests = @ + 1]
               /\ th' = [th EXCEPT ![t] =
                            LockReturned(th[t], cache', stats',
                                         Some(th[t].entry[1].result), "none")]
    /\ lock' = None
    /\ LockFrame

\* get, expired or invalid entry: del self._cache[key] (KeyError when the key
\* is gone); the miss is counted; return None
LRUCache_get_remove(t) ==
    /\ th[t].pc = "get_remove"
    /\ \E k \in {th[t].op[1].key} :
          IF ~HasKey(cache, k)
          THEN /\ th' = [th EXCEPT ![t] =
                            LockReturned(th[t], cache, stats, None, "KeyError")]
               /\ UNCHANGED <<cache, stats>>
          ELSE /\ cache' = RemoveStale(cache, k)
               /\ stats' = [stats EXCEPT !.misses = @ + 1, !.total_requests = @ + 1]
               /\ th' = [th EXCEPT ![t] =
                            LockReturned(th[t], cache', stats', None, "none")]
    /\ lock' = None
    /\ LockFrame

\* put: the eviction loop
LRUCache_put_evict(t) ==
    /\ th[t].pc = "put"
    /\ \E ev \in {EvictLoop(cache, stats, max_size)} :
          /\ cache' = ev.cache
          /\ stats' = ev.stats
          /\ IF ev.raised
             THEN /\ th' = [th EXCEPT ![t] =
                               LockReturned(th[t], cache', stats', None, "KeyError")]
                  /\ lock' = None
             ELSE /\ th' = [th EXCEPT ![t].pc = "put_store"]
                  /\ UNCHANGED lock
    /\ LockFrame

\* put: entry = CacheEntry(...); self._cache[key] = entry
LRUCache_put_store(t) ==
    /\ th[t].pc = "put_store"
    /\ \E op \in {th[t].op[1]} :
          cache' = SetItem(cache, op.key,
                           CacheEntry(op.key, StoreDecision(op.key, op.hash), now, 1,
                                      op.hash))
    /\ th' = [th EXCEPT ![t] = LockReturned(th[t], cache', stats, None, "none")]
    /\ lock' = None
    /\ UNCHANGED stats
    /\ LockFrame

\* invalidate_by_policy_hash: keys_to_remove = [...]
LRUCache_invalidate_collect(t) ==
    /\ th[t].pc = "invalidate"
    /\ th' = [th EXCEPT ![t].pc = "invalidate_delete",
                        ![t].keys_to_remove = TaggedKeys(cache, th[t].op[1].hash)]
    /\ UNCHANGED <<cache, stats, lock>>
    /\ LockFrame

\* invalidate_by_policy_hash: for key in keys_to_remove: del self._cache[key]
\* (KeyError when a key is gone)
LRUCache_invalidate_delete(t) ==
    /\ th[t].pc = "invalidate_delete"
    /\ cache' = SelectSeq(cache, LAMBDA e : e.key \notin th[t].keys_to_remove)
    /\ th' = [th EXCEPT ![t] =
                LockReturned(th[t], cache', stats, None,
                             IF th[t].keys_to_remove \subseteq Keys(cache)
                             THEN "none" ELSE "KeyError")]
    /\ lock' = None
    /\ UNCHANGED stats
    /\ LockFrame

\* clear: self._cache.clear()
LRUCache_clear_all(t) ==
    /\ th[t].pc = "clear"
    /\ cache' = LRUCache_clear(cache)
    /\ th' = [th EXCEPT ![t] = LockReturned(th[t], cache', stats, None, "none")]
    /\ lock' = None
    /\ UNCHANGED stats
    /\ LockFrame

NextLock ==
    \/ \E t \in DOMAIN th, op \in LockOps : LRUCache_acquire(t, op)
    \/ \E t \in DOMAIN th : LRUCache_get_find(t)
    \/ \E t \in DOMAIN th : LRUCache_get_check(t)
    \/ \E t \in DOMAIN th : LRUCache_get_hit(t)
    \/ \E t \in DOMAIN th : LRUCache_get_remove(t)
    \/ \E t \in DOMAIN th : LRUCache_put_evict(t)
    \/ \E t \in DOMAIN th : LRUCache_put_store(t)
    \/ \E t \in DOMAIN th : LRUCache_invalidate_collect(t)
    \/ \E t \in DOMAIN th : LRUCache_invalidate_delete(t)
    \/ \E t \in DOMAIN th : LRUCache_clear_all(t)

SpecLock == InitLock /\ [][NextLock]_vars

-----------------------------------------------------------------------------
(* Engine and EnhancedEngine constructed without an enabled cache.         *)

\* str.strip of a uid: Entity's model_config has str_strip_whitespace=True
RECURSIVE lstrip(_)
lstrip(s) == IF s # <<>> /\ Head(s) = " " THEN lstrip(Tail(s)) ELSE s
RECURSIVE rstrip(_)
rstrip(s) == IF s # <<>> /\ s[Len(s)] = " " THEN rstrip(SubSeq(s, 1, Len(s) - 1)) ELSE s

\* Principal(uid=...), Action(uid=...), Resource(uid=...)
Entity(uid) == [uid |-> rstrip(lstrip(uid))]

\* an identifier given as a str; isinstance(x, str)
Str(s) == [str |-> s]
IsStr(x) == DOMAIN x = {"str"}

\* is_authorized: `if isinstance(principal, str): principal = Principal(uid=principal)`
AsEntity(x) == IF IsStr(x) THEN Entity(x.str) ELSE x

\* requests whose principal is a str, a str with white space around it, or a
\* Principal; the action is a str and the resource a Resource
UncachedRequests ==
    { [principal |-> p, action |-> Str(<<"r">>), resource |-> Entity(<<"d">>)] :
        p \in {Str(<<"a">>), Str(<<" ", "a">>), Entity(<<"b">>)} }

\* engine.CacheConfig(enabled=False)
DisabledCacheConfig ==
    [enabled |-> FALSE, max_size |-> MaxSize, default_ttl |-> 2,
     enable_policy_aware_invalidation |-> TRUE]

\* variant: `if cache_config:`
IgnoreEnabled(cache_config) == cache_config # None

\* Engine.__init__: `if cache_config and cache_config.enabled: self._init_cache()`,
\* otherwise self._cache = None; afterwards `self._cache is not None` says the
\* same, since nothing else assigns self._cache
Engine_caching(cache_config) == cache_config # None /\ cache_config[1].enabled

\* EnhancedEngine.__init__: self._cache_config = cache_config or
\* CacheConfig(enabled=False)
EnhancedEngine_cache_config(cache_config) ==
    IF cache_config = None
    THEN [enabled |-> FALSE, decision_cache_size |-> MaxSize, decision_ttl_seconds |-> 1]
    ELSE cache_config[1]

\* the cache_config argument: Engine(...) with none or a disabled one;
\* EngineBuilder().build() passes none, without_caching() a disabled one, and
\* the base engine of an EnhancedEngine is constructed with none
UncachedConfigs(m) ==
    IF m = "Engine" THEN {None, Some(DisabledCacheConfig)}
    ELSE { Some(EnhancedEngine_cache_config(c)) :
             c \in {None, Some([enabled |-> FALSE, decision_cache_size |-> MaxSize,
                                decision_ttl_seconds |-> 1])} }

\* a caller before its call of is_authorized or get_cache_stats
UncachedIdleThread ==
    [pc |-> "idle", op |-> "none", request |-> None, key |-> None, ret |-> None,
     error |-> "none"]

UncachedReturned(thread, ret, error) ==
    [thread EXCEPT !.pc = "done", !.key = None, !.ret = ret, !.error = error]

InitUncached ==
    /\ mode \in {"Engine", "EnhancedEngine"}
    /\ KeyIdle
    /\ config \in UncachedConfigs(mode)
    /\ max_size = IF mode = "Engine" /\ Engine_caching(config)
                  THEN config[1].max_size ELSE 0
    /\ now = 0
    /\ cache = <<>>
    /\ stats = NewStats
    /\ HistIdle
    /\ policies = <<PermitAll>>
    /\ current_policies_hash = IF mode = "Engine" /\ Engine_caching(config)
                               THEN Some(Engine_compute_policies_hash(policies))
                               ELSE None
    /\ hot_queries = <<>>
    /\ refresh_queue = {}
    /\ tasks = {}
    /\ th = [t \in RaceThreads |-> UncachedIdleThread]
    /\ inv = None
    /\ changes = 0
    /\ warm = None
    /\ evalUnder = <<>>
    /\ obtained = <<>>
    /\ TTLCache_cache = <<>>
    /\ TTLCache_timestamps = <<>>
    /\ lock = None
    /\ call_log = <<>>

UncachedFrame ==
    UNCHANGED <<mode, lock, enhancedVars, keyVars, max_size, now, histVars, config,
                hot_queries, refresh_queue, tasks, inv, changes, warm, evalUnder,
                obtained>>

\* the request as Engine.is_authorized sees it after the conversions
Converted(r) ==
    [principal |-> AsEntity(r.principal).uid, action |-> AsEntity(r.action).uid,
     resource |-> AsEntity(r.resource).uid, context |-> NoMap, entities |-> NoMap]

\* is_authorized is called. EnhancedEngine (cache not enabled): cache_key =
\* None, no middleware is registered, the base engine is called. Engine: the
\* identifiers are converted; `if self._cache is not None` the cache is tried
Uncached_call(t, r) ==
    /\ th[t].pc = "idle"
    /\ mode = "EnhancedEngine" => ~config[1].enabled
    /\ \E me \in {[th[t] EXCEPT !.op = "is_authorized", !.request = Some(r)]} :
          IF mode = "Engine" /\ Engine_caching(config)
          THEN \E k \in {Engine_generate_cache_key(Converted(r))} :
               \E g \in {Engine_get_cached_result(cache, stats, k,
                                                  current_policies_hash[1], now)} :
                  /\ cache' = g.cache
                  /\ stats' = g.stats
                  /\ th' = [th EXCEPT ![t] =
                               IF g.ret # None THEN UncachedReturned(me, g.ret, "none")
                               ELSE [me EXCEPT !.pc = "authorize", !.key = Some(k)]]
          ELSE /\ th' = [th EXCEPT ![t] = [me EXCEPT !.pc = "authorize"]]
               /\ UNCHANGED <<cache, stats>>
    /\ UNCHANGED <<policies, current_policies_hash, call_log>>
    /\ UncachedFrame

\* self._authorizer.is_authorized(policy_set=..., principal=principal.uid,
\* action=action.uid, resource=resource.uid, ...) decides, or raises;
\* `if self._cache is not None` the result is cached; the result is returned
Uncached_authorize(t, ok) ==
    /\ th[t].pc = "authorize"
    /\ \E c \in {Converted(th[t].request[1])} :
          call_log' = Append(call_log,
                             [caller |-> t, principal |-> c.principal,
                              action |-> c.action, resource |-> c.resource,
                              result |-> IF ok THEN Some(Decide(policies)) ELSE None])
    /\ IF ~ok
       THEN /\ th' = [th EXCEPT ![t] = UncachedReturned(@, None, "EvaluationError")]
            /\ UNCHANGED <<cache, stats>>
       ELSE /\ th' = [th EXCEPT ![t] = UncachedReturned(@, Some(Decide(policies)), "none")]
            /\ IF mode = "Engine" /\ Engine_caching(config)
               THEN \E s \in {Engine_cache_result(cache, stats, max_size, th[t].key[1],
                                                  Decide(policies), None,
                                                  config[1].default_ttl,
                                                  current_policies_hash[1], now)} :
                       cache' = s.cache /\ stats' = s.stats
               ELSE UNCHANGED <<cache, stats>>
    /\ UNCHANGED <<policies, current_policies_hash>>
    /\ UncachedFrame

\* Engine.add_policy on the engine (the base engine of an EnhancedEngine):
\* the policy is added; invalidate_policy_cache returns at once when
\* self._cache is None
Uncached_add_policy(p) ==
    /\ p.id \notin PolicyIds(policies)
    /\ policies' = PolicySet_add(policies, p)
    /\ IF mode = "Engine" /\ Engine_caching(config)
          /\ current_policies_hash[1] # Engine_compute_policies_hash(policies')
       THEN /\ cache' = LRUCache_invalidate_by_policy_hash(cache, current_policies_hash[1])
            /\ current_policies_hash' = Some(Engine_compute_policies_hash(policies'))
       ELSE UNCHANGED <<cache, current_policies_hash>>
    /\ UNCHANGED <<stats, th, call_log>>
    /\ UncachedFrame

\* Engine.get_cache_stats: None when there is no cache
Engine_get_cache_stats(cache_config, d, st, size) ==
    IF ~Engine_caching(cache_config) THEN None
    ELSE Some([hits |-> st.hits, misses |-> st.misses, evictions |-> st.evictions,
               total_requests |-> st.total_requests, current_cache_size |-> Len(d),
               max_cache_size |-> size])

\* EnhancedEngine.cache_stats
EnhancedEngine_cache_stats(cache_config, d) ==
    IF ~cache_config.enabled THEN [enabled |-> FALSE]
    ELSE [enabled |-> TRUE, decision_cache_size |-> Len(d),
          max_decision_cache_size |-> cache_config.decision_cache_size,
          ttl_seconds |-> cache_config.decision_ttl_seconds]

\* a caller asks for the cache statistics
Uncached_get_cache_stats(t) ==
    /\ th[t].pc = "idle"
    /\ th' = [th EXCEPT ![t] =
                UncachedReturned([@ EXCEPT !.op = "get_cache_stats"],
                    IF mode = "Engine"
                    THEN Engine_get_cache_stats(config, cache, stats, max_size)
                    ELSE Some(EnhancedEngine_cache_stats(config[1], TTLCache_cache)),
                    "none")]
    /\ UNCHANGED <<cache, stats, policies, current_policies_hash, call_log>>
    /\ UncachedFrame

NextUncached ==
    \/ \E t \in DOMAIN th, r \in UncachedRequests : Uncached_call(t, r)
    \/ \E t \in DOMAIN th, ok \in BOOLEAN : Uncached_authorize(t, ok)
    \/ Uncached_add_policy(ForbidAll)
    \/ \E t \in DOMAIN th : Uncached_get_cache_stats(t)

SpecUncached == InitUncached /\ [][NextUncached]_vars

-----------------------------------------------------------------------------
(* CachedEngine with background refresh: callers that call again and       *)
(* again, and the refresh tasks run by the executor.                       *)

\* lookups the callers make in all
MaxLookups == 11

RefreshThreads == {"t1", "t2"}

\* IntelligentCacheConfig (background_refresh_threshold in percent)
RefreshConfigs ==
    { [default_ttl |-> 2,
       enable_policy_aware_invalidation |-> TRUE,
       enable_hot_path_optimization |-> hot,
       enable_background_refresh |-> bg,
       background_refresh_threshold |-> 80] : hot \in BOOLEAN, bg \in BOOLEAN }

InitRefresh ==
    /\ mode = "CachedEngine"
    /\ KeyIdle
    /\ max_size = MaxSize
    /\ now = 0
    /\ cache = <<>>
    /\ stats = NewStats
    /\ HistIdle
    /\ config \in RefreshConfigs
    /\ policies = <<PermitAll>>
    /\ current_policies_hash = Some(compute_policies_hash(mode, policies))
    /\ hot_queries = [k \in FacadeKeys |-> 0]
    /\ refresh_queue = {}
    /\ tasks = <<>>
    /\ th = [t \in RefreshThreads |-> IdleThread]
    /\ inv = IdleInv
    /\ changes = MaxPolicyChanges
    /\ warm = None
    /\ evalUnder = Nothing
    /\ obtained = Nothing
    /\ TTLCache_cache = <<>>
    /\ TTLCache_timestamps = <<>>
    /\ lock = None
    /\ call_log = <<>>

\* a caller that has returned calls is_authorized again
CachedEngine_again(t) ==
    /\ mode = "CachedEngine"
    /\ th[t].pc = "done"
    /\ stats.total_requests < MaxLookups - 1
    /\ th' = [th EXCEPT ![t] = IdleThread]
    /\ UNCHANGED <<mode, call_log, lock, enhancedVars, keyVars, storeVars, histVars,
                   config, policies, current_policies_hash, hot_queries,
                   refresh_queue, tasks, inv, changes, evalUnder, obtained, warm>>

\* variant: every key is refreshed, hot or not
RefreshAnyKey(cfg, freqs, queue, k) ==
    cfg.enable_background_refresh /\ k \notin queue

\* CachedEngine._should_background_refresh
should_background_refresh(cfg, freqs, queue, k) ==
    IF ~cfg.enable_background_refresh THEN FALSE
    ELSE freqs[k] >= HotThreshold /\ k \notin queue

\* after a hit: `if self.config.enable_background_refresh and
\* self._should_background_refresh(cache_key)`; otherwise the hit returns
CachedEngine_should_refresh(t) ==
    /\ th[t].pc = "hit"
    /\ th' = [th EXCEPT ![t] =
                IF /\ config.enable_background_refresh
                   /\ should_background_refresh(config, hot_queries, refresh_queue,
                                                th[t].key[1])
                THEN [@ EXCEPT !.pc = "schedule"]
                ELSE Returned(@, @.ret, "none")]
    /\ UNCHANGED <<mode, call_log, lock, enhancedVars, keyVars, storeVars, histVars,
                   config, policies, current_policies_hash, hot_queries,
                   refresh_queue, tasks, inv, changes, evalUnder, obtained, warm>>

\* _schedule_background_refresh: `if cache_key in self.refresh_queue: return`
CachedEngine_schedule_check(t) ==
    /\ th[t].pc = "schedule"
    /\ th' = [th EXCEPT ![t] =
                IF th[t].key[1] \in refresh_queue THEN Returned(@, @.ret, "none")
                ELSE [@ EXCEPT !.pc = "schedule_add"]]
    /\ UNCHANGED <<mode, call_log, lock, enhancedVars, keyVars, storeVars, histVars,
                   config, policies, current_policies_hash, hot_queries,
                   refresh_queue, tasks, inv, changes, evalUnder, obtained, warm>>

\* a refresh task as submitted for key k by caller t (history: whether the
\* caller's lookup was a hit, the key's frequency, and the age and ttl of the
\* key's entry, when the task was submitted)
RefreshTask(t, k) ==
    [key |-> k, pc |-> "queued", result |-> None, failed |-> FALSE,
     evalPolicies |-> None, evalHash |-> None,
     by |-> t, hit |-> th[t].ret # None, frequency |-> hot_queries[k],
     entry |-> IF HasKey(cache, k)
               THEN Some([elapsed |-> now - Lookup(cache, k).timestamp,
                          ttl |-> Lookup(cache, k).ttl])
               ELSE None,
     stored |-> None, compared |-> None]

\* _schedule_background_refresh: self.refresh_queue.add(cache_key);
\* self.executor.submit(refresh_task); the hit returns
CachedEngine_schedule_add(t) ==
    /\ th[t].pc = "schedule_add"
    /\ refresh_queue' = refresh_queue \cup {th[t].key[1]}
    /\ tasks' = Append(tasks, RefreshTask(t, th[t].key[1]))
    /\ th' = [th EXCEPT ![t] = Returned(@, @.ret, "none")]
    /\ UNCHANGED <<mode, call_log, lock, enhancedVars, keyVars, storeVars, histVars,
                   config, policies, current_policies_hash, hot_queries, inv,
                   changes, evalUnder, obtained, warm>>

\* variant: a failed refresh drops the key's entry
DropOnError(d, k) == Delete(d, k)

\* refresh_task: `except Exception as e: logger.error(...)`: the store is left
\* as it is
refresh_failed(d, k) == d

\* refresh_task: result = self.engine.is_authorized(...) decides, or raises
refresh_task_evaluate(i, ok) ==
    /\ tasks[i].pc = "queued"
    /\ cache' = IF ok THEN cache ELSE refresh_failed(cache, tasks[i].key)
    /\ tasks' = [tasks EXCEPT ![i] =
                   IF ok
                   THEN [@ EXCEPT !.pc = "evaluated", !.result = Some(Decide(policies)),
                                  !.evalPolicies = Some(policies),
                                  !.evalHash = current_policies_hash]
                   ELSE [@ EXCEPT !.pc = "finally", !.failed = TRUE]]
    /\ UNCHANGED <<mode, call_log, lock, enhancedVars, keyVars, max_size, now, stats,
                   histVars, config, policies, current_policies_hash, hot_queries,
                   refresh_queue, th, inv, changes, evalUnder, obtained, warm>>

\* refresh_task: ttl = self._get_adaptive_ttl(cache_key); self.cache.put(
\* cache_key, result, ttl, self.current_policies_hash); an error of put is
\* caught by `except Exception` (history: the entry stored, and the version a
\* lookup computes at this moment)
refresh_task_put(i) ==
    /\ tasks[i].pc = "evaluated"
    /\ \E k \in {tasks[i].key} :
       \E ttl \in {get_adaptive_ttl(config, hot_queries, k)} :
       \E r \in {LRUCache_put(cache, stats, max_size, k, tasks[i].result[1], ttl,
                              current_policies_hash[1], now)} :
          /\ cache' = r.cache
          /\ stats' = r.stats
          /\ lastOp' = PutOp(cache, stats, max_size, recency, k, r.cache, r.stats, r.raised)
          /\ recency' = IF r.raised THEN StillPresent(recency, Keys(r.cache))
                        ELSE Used(recency, k, Keys(r.cache))
          /\ th' = IF r.raised THEN th
                   ELSE Forget(Stored(th, k), Keys(cache) \ Keys(r.cache))
          /\ evalUnder' = IF r.raised THEN evalUnder
                          ELSE [Restrict(evalUnder, r.cache) EXCEPT
                                    ![k] = tasks[i].evalPolicies]
          /\ obtained' = IF r.raised THEN obtained
                         ELSE [Restrict(obtained, r.cache) EXCEPT
                                  ![k] = IF Fresh(tasks[i])
                                         THEN Some([v |-> tasks[i].result[1], at |-> now,
                                                    ttl |-> ttl])
                                         ELSE @]
          /\ inv' = IF r.raised THEN inv ELSE [inv EXCEPT !.still = @ \ {k}]
          /\ tasks' = [tasks EXCEPT ![i] =
                         IF r.raised THEN [@ EXCEPT !.pc = "finally", !.failed = TRUE]
                         ELSE [@ EXCEPT !.pc = "finally",
                                 !.stored = Some(Lookup(r.cache, k)),
                                 !.compared =
                                    Some(CachedEngine_compute_policies_hash(policies))]]
    /\ UNCHANGED <<mode, call_log, lock, enhancedVars, keyVars, max_size, now, config,
                   policies, current_policies_hash, hot_queries, refresh_queue,
                   changes, warm>>

\* variant: the key stays in the pending set
KeepPending(queue, k) == queue

\* set.discard
discard(queue, k) == queue \ {k}

\* refresh_task: finally: self.refresh_queue.discard(cache_key)
refresh_task_finally(i) ==
    /\ tasks[i].pc = "finally"
    /\ refresh_queue' = discard(refresh_queue, tasks[i].key)
    /\ tasks' = [tasks EXCEPT ![i].pc = "done"]
    /\ UNCHANGED <<mode, call_log, lock, enhancedVars, keyVars, storeVars, histVars,
                   config, policies, current_policies_hash, hot_queries, th, inv,
                   changes, evalUnder, obtained, warm>>

\* the executor's worker threads run the tasks submitted
RefreshWorkers ==
    \/ \E i \in DOMAIN tasks, ok \in BOOLEAN : refresh_task_evaluate(i, ok)
    \/ \E i \in DOMAIN tasks : refresh_task_put(i)
    \/ \E i \in DOMAIN tasks : refresh_task_finally(i)

\* the first caller calls from the start; the second one joins it for the
\* last lookups
Calling(t) == t = "t1" \/ stats.total_requests >= MaxLookups - 2

\* invalidate_policy_cache is called once the policy set differs from the
\* recorded version
PolicyChanged ==
    current_policies_hash # Some(compute_policies_hash(mode, policies))

NextRefresh ==
    \/ \E t \in DOMAIN th : Calling(t) /\ CachedEngine_call(t, RaceRequest, None)
    \/ \E t \in DOMAIN th : CachedEngine_track(t)
    \/ \E t \in DOMAIN th : CachedEngine_lookup(t)
    \/ \E t \in DOMAIN th : CachedEngine_evaluate(t, TRUE)
    \/ \E t \in DOMAIN th : CachedEngine_store(t)
    \/ \E t \in DOMAIN th : CachedEngine_again(t)
    \/ \E t \in DOMAIN th : CachedEngine_should_refresh(t)
    \/ \E t \in DOMAIN th : CachedEngine_schedule_check(t)
    \/ \E t \in DOMAIN th : CachedEngine_schedule_add(t)
    \/ \E i \in DOMAIN tasks, ok \in BOOLEAN : refresh_task_evaluate(i, ok)
    \/ \E i \in DOMAIN tasks : refresh_task_put(i)
    \/ \E i \in DOMAIN tasks : refresh_task_finally(i)
    \/ add_policy(ForbidAll)
    \/ PolicyChanged /\ invalidate_policy_cache_call
    \/ invalidate_policy_cache_compare
    \/ invalidate_policy_cache_remove
    \/ invalidate_policy_cache_record

SpecRefresh == InitRefresh /\ [][NextRefresh]_vars

\* the callers, the refresh tasks and a change of the policy set
NextPending ==
    \/ \E t \in DOMAIN th : Calling(t) /\ CachedEngine_call(t, RaceRequest, None)
    \/ \E t \in DOMAIN th : CachedEngine_track(t)
    \/ \E t \in DOMAIN th : CachedEngine_lookup(t)
    \/ \E t \in DOMAIN th : CachedEngine_evaluate(t, TRUE)
    \/ \E t \in DOMAIN th : CachedEngine_store(t)
    \/ \E t \in DOMAIN th : CachedEngine_again(t)
    \/ \E t \in DOMAIN th : CachedEngine_should_refresh(t)
    \/ \E t \in DOMAIN th : CachedEngine_schedule_check(t)
    \/ \E t \in DOMAIN th : CachedEngine_schedule_add(t)
    \/ \E i \in DOMAIN tasks, ok \in BOOLEAN : refresh_task_evaluate(i, ok)
    \/ \E i \in DOMAIN tasks : refresh_task_put(i)
    \/ \E i \in DOMAIN tasks : refresh_task_finally(i)
    \/ add_policy(ForbidAll)

\* the tasks submitted to the executor terminate and its worker threads are
\* scheduled fairly
SpecRefreshFair == InitRefresh /\ [][NextPending]_vars /\ WF_vars(RefreshWorkers)

-----------------------------------------------------------------------------
(* is_authorized of both facades with the store lock made explicit: the    *)
(* lock is taken by LRUCache.get / put (Engine._get_cached_result /        *)
(* _cache_result) and by nothing else.                                     *)

\* variant: leaving the `with` block keeps the lock
KeepLock(l, t) == l

\* leaving `with self._lock`: RLock.release by its holder
RLock_release(l, t) == IF l = Some(t) THEN None ELSE l

\* a caller outside is_authorized
\* (during: history, the threads that were inside the Decision Source when
\* this call began)
HoldIdleThread ==
    [pc |-> "idle", key |-> None, hash |-> None, result |-> None, ret |-> None,
     error |-> "none", during |-> {}]

InitHold ==
    /\ mode \in {"CachedEngine", "Engine"}
    /\ KeyIdle
    /\ max_size = MaxSize
    /\ now = 0
    /\ cache = <<>>
    /\ stats = NewStats
    /\ HistIdle
    /\ config \in Configs
    /\ policies = <<PermitAll>>
    /\ current_policies_hash = Some(compute_policies_hash(mode, policies))
    /\ hot_queries = [k \in FacadeKeys |-> 0]
    /\ refresh_queue = {}
    /\ tasks = {}
    /\ th = [t \in RaceThreads |-> HoldIdleThread]
    /\ inv = None /\ changes = 0 /\ warm = None
    /\ evalUnder = Nothing
    /\ obtained = Nothing
    /\ TTLCache_cache = <<>>
    /\ TTLCache_timestamps = <<>>
    /\ lock = None
    /\ call_log = <<>>

HoldFrame ==
    UNCHANGED <<mode, call_log, enhancedVars, keyVars, max_size, now, histVars, config,
                policies, current_policies_hash, refresh_queue, tasks, inv,
                changes, warm, evalUnder, obtained>>

\* is_authorized begins: the key; CachedEngine tracks the frequency and
\* computes the policy version, Engine compares against the recorded one
is_authorized_begin(t, r) ==
    /\ th[t].pc = "idle"
    /\ \E k \in {generate_cache_key(mode, r)} :
          /\ th' = [th EXCEPT ![t] =
                      [HoldIdleThread EXCEPT
                          !.pc = "get_wait", !.key = Some(k),
                          !.hash = IF mode = "CachedEngine"
                                   THEN Some(CachedEngine_compute_policies_hash(policies))
                                   ELSE None,
                          !.during = { u \in DOMAIN th : th[u].pc = "evaluating" }]]
          /\ hot_queries' = IF mode = "CachedEngine" /\ config.enable_hot_path_optimization
                            THEN [hot_queries EXCEPT ![k] = @ + 1]
                            ELSE hot_queries
    /\ UNCHANGED <<cache, stats, lock>>
    /\ HoldFrame

\* the lookup enters `with self._lock` / `with self._cache_lock`
get_acquire(t) ==
    /\ th[t].pc = "get_wait"
    /\ CanAcquire(lock, t)
    /\ lock' = Some(t)
    /\ th' = [th EXCEPT ![t].pc = "get_locked"]
    /\ UNCHANGED <<cache, stats, hot_queries>>
    /\ HoldFrame

\* the body of LRUCache.get / Engine._get_cached_result, and the end of its
\* `with` block; a hit returns, a miss goes on to the Decision Source
get_release(t) ==
    /\ th[t].pc = "get_locked"
    /\ \E g \in {IF mode = "CachedEngine"
                 THEN LRUCache_get(cache, stats, th[t].key[1], th[t].hash[1], now)
                 ELSE Engine_get_cached_result(cache, stats, th[t].key[1],
                                               current_policies_hash[1], now)} :
          /\ cache' = g.cache
          /\ stats' = g.stats
          /\ th' = [th EXCEPT ![t].pc = IF g.ret # None THEN "done" ELSE "evaluating",
                              ![t].ret = g.ret]
    /\ lock' = RLock_release(lock, t)
    /\ UNCHANGED hot_queries
    /\ HoldFrame

\* the Decision Source returns its decision, or raises
authorizer_return(t, ok) ==
    /\ th[t].pc = "evaluating"
    /\ th' = [th EXCEPT ![t] =
                IF ok THEN [@ EXCEPT !.pc = "put_wait", !.result = Some(Decide(policies))]
                ELSE [@ EXCEPT !.pc = "done", !.error = "EvaluationError"]]
    /\ UNCHANGED <<cache, stats, lock, hot_queries>>
    /\ HoldFrame

\* the store of the result enters `with self._lock` / `with self._cache_lock`
put_acquire(t) ==
    /\ th[t].pc = "put_wait"
    /\ CanAcquire(lock, t)
    /\ lock' = Some(t)
    /\ th' = [th EXCEPT ![t].pc = "put_locked"]
    /\ UNCHANGED <<cache, stats, hot_queries>>
    /\ HoldFrame

\* the body of LRUCache.put / Engine._cache_result, and the end of its `with`
\* block; is_authorized returns the result
put_release(t) ==
    /\ th[t].pc = "put_locked"
    /\ \E k \in {th[t].key[1]} :
       \E r \in {IF mode = "CachedEngine"
                 THEN LRUCache_put(cache, stats, max_size, k, th[t].result[1],
                                   get_adaptive_ttl(config, hot_queries, k),
                                   th[t].hash[1], now)
                 ELSE Engine_cache_result(cache, stats, max_size, k, th[t].result[1],
                                          None, config.default_ttl,
                                          current_policies_hash[1], now)} :
          /\ cache' = r.cache
          /\ stats' = r.stats
          /\ th' = [th EXCEPT ![t].pc = "done",
                              ![t].ret = IF r.raised THEN None ELSE th[t].result,
                              ![t].error = IF r.raised THEN "KeyError" ELSE "none"]
    /\ lock' = RLock_release(lock, t)
    /\ UNCHANGED hot_queries
    /\ HoldFrame

NextHold ==
    \/ \E t \in DOMAIN th, r \in FacadeRequests : is_authorized_begin(t, r)
    \/ \E t \in DOMAIN th : get_acquire(t)
    \/ \E t \in DOMAIN th : get_release(t)
    \/ \E t \in DOMAIN th, ok \in BOOLEAN : authorizer_return(t, ok)
    \/ \E t \in DOMAIN th : put_acquire(t)
    \/ \E t \in DOMAIN th : put_release(t)

SpecHold == InitHold /\ [][NextHold]_vars

-----------------------------------------------------------------------------
(* One caller of CachedEngine, and an application that changes the policy  *)
(* set several times between its calls of invalidate_policy_cache.         *)

\* the number of changes of the policy set
MaxVersionChanges == 2

InitVersions ==
    /\ mode = "CachedEngine"
    /\ KeyIdle
    /\ max_size = MaxSize
    /\ now = 0
    /\ cache = <<>>
    /\ stats = NewStats
    /\ HistIdle
    /\ config \in Configs
    /\ policies = <<PermitAll>>
    /\ current_policies_hash = Some(compute_policies_hash(mode, policies))
    /\ hot_queries = [k \in FacadeKeys |-> 0]
    /\ refresh_queue = {}
    /\ tasks = <<>>
    /\ th = [t \in {"t1"} |-> IdleThread]
    /\ inv = IdleInv
    /\ changes = MaxVersionChanges
    /\ warm = None
    /\ evalUnder = Nothing
    /\ obtained = Nothing
    /\ TTLCache_cache = <<>>
    /\ TTLCache_timestamps = <<>>
    /\ lock = None
    /\ call_log = <<>>

\* the caller's lookups
MaxVersionLookups == 4

NextVersions ==
    \/ \E t \in DOMAIN th, r \in FacadeRequests : CachedEngine_call(t, r, None)
    \/ \E t \in DOMAIN th : CachedEngine_track(t)
    \/ \E t \in DOMAIN th : CachedEngine_lookup(t)
    \/ \E t \in DOMAIN th : CachedEngine_evaluate(t, TRUE)
    \/ \E t \in DOMAIN th : CachedEngine_store(t)
    \/ \E t \in DOMAIN th :
          stats.total_requests < MaxVersionLookups /\ CachedEngine_again(t)
    \/ \E p \in Policies : add_policy(p)
    \/ \E id \in PolicyIds(policies) : remove_policy(id)
    \/ invalidate_policy_cache_call
    \/ invalidate_policy_cache_compare
    \/ invalidate_policy_cache_remove
    \/ invalidate_policy_cache_record

SpecVersions == InitVersions /\ [][NextVersions]_vars

-----------------------------------------------------------------------------
(* EnhancedEngine serving two requests one after the other: reqA on thread *)
(* t1, then reqB on thread t2, within the ttl of the decision cache.       *)

\* requests about one principal, action and resource
OrderRequests ==
    { r \in Requests :
        r.principal = <<"a">> /\ r.action = <<"a">> /\ r.resource = <<"a">> }

InitOrder ==
    /\ mode = "EnhancedEngine"
    /\ reqA \in OrderRequests
    /\ reqB \in OrderRequests
    /\ keyA = None /\ keyB = None /\ encoder = "none"
    /\ config \in EnhancedConfigs
    /\ max_size = config.decision_cache_size
    /\ now = 0
    /\ cache = <<>>
    /\ stats = NewStats
    /\ HistIdle
    /\ policies = <<PermitAll>>
    /\ current_policies_hash = None
    /\ hot_queries = <<>>
    /\ refresh_queue = {}
    /\ tasks = {}
    /\ th = [t \in Threads |-> EnhancedIdleThread]
    /\ inv = None
    /\ changes = 0
    /\ warm = None
    /\ evalUnder = <<>>
    /\ obtained = <<>>
    /\ TTLCache_cache = <<>>
    /\ TTLCache_timestamps = <<>>
    /\ lock = None
    /\ call_log = <<>>

NextOrder ==
    \/ EnhancedEngine_call("t1", reqA)
    \/ th["t1"].pc = "done" /\ EnhancedEngine_call("t2", reqB)
    \/ \E t \in DOMAIN th : TTLCache_get_contains(t)
    \/ \E t \in DOMAIN th : TTLCache_get_timestamp(t)
    \/ \E t \in DOMAIN th : TTLCache_get_value(t)
    \/ \E t \in DOMAIN th, ok \in BOOLEAN : EnhancedEngine_evaluate(t, ok)
    \/ \E t \in DOMAIN th : TTLCache_set_len(t)
    \/ \E t \in DOMAIN th : TTLCache_set_min(t)
    \/ \E t \in DOMAIN th : TTLCache_set_del_cache(t)
    \/ \E t \in DOMAIN th : TTLCache_set_del_timestamp(t)
    \/ \E t \in DOMAIN th : TTLCache_set_value(t)
    \/ \E t \in DOMAIN th : TTLCache_set_timestamp(t)

SpecOrder == InitOrder /\ [][NextOrder]_vars

-----------------------------------------------------------------------------
(* Claims about the facades (checked under SpecFacade, SpecRace).          *)

\* a lookup of key k made now by is_authorized would be a miss
WouldMiss(k) ==
    IF mode = "Engine"
    THEN Engine_get_cached_result(cache, stats, k, current_policies_hash[1], now).ret = None
    ELSE LRUCache_get(cache, stats, k, CachedEngine_compute_policies_hash(policies),
                      now).ret = None

\* a caller that has made its lookup
LookedUp(t) == th[t].pc \in {"miss", "evaluated", "done"}

\* C1: once a call for request r has obtained v from the Decision Source (and
\* stored it), every later call for r made while the policy version is
\* unchanged, before the entry's ttl has elapsed and while the entry has not
\* been evicted, cleared or invalidated, returns v without invoking the
\* Decision Source.
C1_LaterCallsServedFromCache ==
    \A t \in DOMAIN th :
        (LookedUp(t) /\ th[t].expect # None) =>
            /\ th[t].pc = "done"
            /\ ~th[t].evaluated
            /\ th[t].ret = th[t].expect

\* C1, the case that fails: a later call has returned the other decision.
C1_ReturnedAnother ==
    \E t \in DOMAIN th :
        /\ th[t].pc = "done"
        /\ th[t].expect # None
        /\ th[t].ret # None
        /\ th[t].ret # th[t].expect

\* C4: when invalidate_policy_cache finds that the policy version changed from
\* old to new, it removes every entry tagged old and no other entry, records
\* new as the current version, and a lookup of a key that was cached under old
\* (and has not been stored again) is a miss; when the version has not changed
\* it removes nothing and leaves the recorded version as it was.
C4_InvalidationRemovesOldVersion ==
    /\ (inv.pc = "record" \/ inv.outcome = "changed") =>
          /\ inv.old # inv.new
          /\ inv.gone = inv.tagged
          /\ \A k \in inv.still : ~HasKey(cache, k) /\ WouldMiss(k)
    /\ (inv.pc = "idle" /\ inv.outcome = "changed") =>
          current_policies_hash = inv.new
    /\ inv.outcome = "unchanged" =>
          /\ inv.old = inv.new
          /\ inv.gone = {}
          /\ current_policies_hash = inv.old

\* C4 witness: an invalidation that found a new version has completed; it
\* removed an entry, it kept an entry with another tag, and a key it removed
\* has not been stored since.
C4_Witness ==
    /\ inv.pc = "idle" /\ inv.outcome = "changed"
    /\ inv.gone # {}
    /\ inv.kept # {}
    /\ inv.still # {}

\* C4 witness of the other case: an invalidation found the version unchanged
\* and left the entries of the store in place.
C4_UnchangedWitness ==
    /\ inv.pc = "idle" /\ inv.outcome = "unchanged"
    /\ cache # <<>>

\* C6: if the Decision Source raises during a miss, the call propagates the
\* error and stores no entry for the key: as long as no other call has stored
\* the key, the store holds no entry for it and the next call for the key is a
\* miss that invokes the Decision Source again.
C6_ErrorIsNotCached ==
    \A t \in DOMAIN th :
        (th[t].pc = "done" /\ th[t].error = "EvaluationError") =>
            /\ th[t].ret = None
            /\ th[t].clean => (~HasKey(cache, th[t].key[1]) /\ WouldMiss(th[t].key[1]))

\* C6 witness: a call whose lookup found a stale entry has propagated the
\* Decision Source's error, and no other call has stored its key since.
C6_Witness ==
    \E t \in DOMAIN th :
        /\ th[t].pc = "done" /\ th[t].error = "EvaluationError"
        /\ th[t].clean
        /\ lastOp.op = "get" /\ Some(lastOp.key) = th[t].key /\ lastOp.found

\* C5: in every interleaving of authorize calls and policy changes followed by
\* invalidation, the policy version tag of each stored entry is the version of
\* the policy set under which the entry's result was evaluated.
C5_TagIsEvaluationVersion ==
    \A i \in DOMAIN cache :
        evalUnder[cache[i].key] # None =>
            cache[i].policies_hash
                = compute_policies_hash(mode, evalUnder[cache[i].key][1])

\* C5, the consequence that fails: after an invalidation has completed, a
\* lookup has returned a decision that was evaluated under the previous policy
\* set.
C5_StaleDecisionServed ==
    \E t \in DOMAIN th :
        /\ th[t].pc = "done" /\ th[t].ret # None /\ ~th[t].evaluated
        /\ lastOp.op = "get" /\ Some(lastOp.key) = th[t].key /\ lastOp.ret = th[t].ret
        /\ inv.pc = "idle" /\ inv.outcome = "changed"
        /\ current_policies_hash = Some(compute_policies_hash(mode, policies))
        /\ Lookup(cache, lastOp.key).policies_hash = current_policies_hash[1]
        /\ evalUnder[lastOp.key] # None
        /\ evalUnder[lastOp.key] # Some(policies)
        /\ th[t].ret # Some(Decide(policies))

-----------------------------------------------------------------------------
(* Claims about the bounded store (checked under SpecStore, SpecEvict).    *)

\* C8: in every reachable state of a store constructed with max_size >= 1,
\* whatever the sequence of get, put, invalidate_by_policy_hash and clear,
\* the number of entries is at most max_size.
C8_SizeBounded ==
    max_size >= 1 => Len(cache) <= max_size

\* C8 witness: a put into a full store has just evicted an entry, and the store
\* is full again.
C8_Witness ==
    /\ max_size >= 1
    /\ lastOp.op = "put"
    /\ lastOp.full
    /\ lastOp.evicted = 1
    /\ Len(cache) = max_size

\* C18: in any sequence of get, put, invalidate_by_policy_hash and clear the
\* counters hits, misses, evictions and total_requests never decrease (neither
\* clear, nor invalidation, nor eviction, nor the removal of a stale entry by
\* get resets one), and clear and invalidate_by_policy_hash leave hits, misses
\* and total_requests as they were.
C18_CountersNeverDecrease ==
    [][/\ stats'.hits >= stats.hits
       /\ stats'.misses >= stats.misses
       /\ stats'.evictions >= stats.evictions
       /\ stats'.total_requests >= stats.total_requests
       /\ lastOp'.op \in {"invalidate", "clear"} =>
             /\ stats'.hits = stats.hits
             /\ stats'.misses = stats.misses
             /\ stats'.total_requests = stats.total_requests]_vars

\* C18 witness: an invalidation or a clear has just removed entries from a
\* store that has counted a lookup and an eviction.
C18_Witness ==
    /\ lastOp.op \in {"invalidate", "clear"}
    /\ lastOp.gone # {}
    /\ stats.total_requests > 0 /\ stats.evictions > 0
    /\ stats.total_requests = stats.hits + stats.misses

\* C19: an invalidation that removes n entries from the store increases
\* stats().evictions by n (CacheStats has no other counter of removals).
C19_InvalidationIsCounted ==
    [][lastOp'.op = "invalidate" /\ cache' # cache =>
          stats'.evictions = stats.evictions + Cardinality(lastOp'.gone)]_vars

\* C19, the case that fails: an invalidation has just removed an entry and
\* no eviction has ever been counted.
C19_RemovedUncounted ==
    /\ lastOp.op = "invalidate"
    /\ lastOp.gone # {}
    /\ stats.evictions = 0

\* C21: a put of a key that is already present replaces that key's entry
\* (result, timestamp, ttl, policy version) and moves the key to the most
\* recently used position, the last to be chosen for eviction.
C21_OverwriteMovesToEnd ==
    [][(lastOp'.op = "put" /\ lastOp'.found /\ max_size >= 1 /\ now' = now) =>
          /\ HasKey(cache', lastOp'.key)
          /\ Lookup(cache', lastOp'.key).timestamp = now
          /\ Lookup(cache', lastOp'.key).access_count = 0
          /\ cache'[Len(cache')].key = lastOp'.key]_vars

\* C21, the case that fails: a put of a key that was present has evicted
\* nothing, has replaced the entry, and has left the key before another key,
\* in the position it had.
C21_OverwriteKeptPosition ==
    /\ lastOp.op = "put" /\ lastOp.found /\ lastOp.evicted = 0
    /\ HasKey(cache, lastOp.key)
    /\ Lookup(cache, lastOp.key).timestamp = now /\ now > 0
    /\ cache[Len(cache)].key # lastOp.key

\* C22: a put of a key that is already present changes only that key's
\* entry: no other key is evicted, len and the evictions counter stay as they
\* were, even when the store holds max_size entries.
C22_OverwriteEvictsNothing ==
    [][(lastOp'.op = "put" /\ lastOp'.found /\ max_size >= 1 /\ now' = now) =>
          /\ Keys(cache') = Keys(cache)
          /\ Len(cache') = Len(cache)
          /\ stats'.evictions = stats.evictions
          /\ \A k \in Keys(cache) \ {lastOp'.key} :
                HasKey(cache', k) /\ Lookup(cache', k) = Lookup(cache, k)]_vars

\* C22, the case that fails: a put of a key that was present in a full store
\* has evicted another key and counted an eviction.
C22_OverwriteEvictedAnother ==
    /\ lastOp.op = "put" /\ lastOp.found /\ lastOp.full /\ max_size >= 2
    /\ lastOp.evicted = 1
    /\ lastOp.gone # {} /\ lastOp.key \notin lastOp.gone
    /\ Len(cache) = max_size - 1

\* C23: a get that finds its key present but stale (expired, or tagged with
\* another policy version) removes that entry, so that len decreases by 1,
\* adds 1 to misses and to total_requests, leaves hits and evictions as they
\* were, and leaves the other entries and their order unchanged; a get of an
\* absent key leaves the store as it was.
C23_StaleGetRemovesOnlyItsEntry ==
    [][(lastOp'.op = "get" /\ lastOp'.ret = None /\ now' = now) =>
          /\ cache' = SelectSeq(cache, LAMBDA e : e.key # lastOp'.key)
          /\ Len(cache') = IF lastOp'.found THEN Len(cache) - 1 ELSE Len(cache)
          /\ ~lastOp'.found => cache' = cache
          /\ stats'.misses = stats.misses + 1
          /\ stats'.total_requests = stats.total_requests + 1
          /\ stats'.hits = stats.hits
          /\ stats'.evictions = stats.evictions]_vars

\* C23 witness: a get has just found its key expired in a store holding
\* another entry, has removed it and has counted a miss.
C23_Witness ==
    /\ lastOp.op = "get" /\ lastOp.found /\ lastOp.ret = None
    /\ lastOp.age \in {"at ttl", "above ttl"}
    /\ ~HasKey(cache, lastOp.key)
    /\ Len(cache) = 1
    /\ stats.misses = 1

\* C7: for max_size >= 1, a put of a key that is not present into a store
\* holding max_size entries evicts exactly one entry, the least recently used
\* one (a use is a put of the key or a get hit on it), adds exactly 1 to
\* evictions and leaves len = max_size; into a store that is not full it
\* evicts nothing.
C7_PutEvictsLeastRecentlyUsed ==
    (lastOp.op = "put" /\ max_size >= 1 /\ ~lastOp.found) =>
        IF lastOp.full
        THEN /\ lastOp.evicted = 1
             /\ lastOp.gone = {lastOp.lru[1]}
             /\ Len(cache) = max_size
        ELSE /\ lastOp.evicted = 0
             /\ lastOp.gone = {}

\* C7, the case that fails: the put of an absent key into a full store has
\* evicted a key other than the least recently used one.
C7_EvictedAnother ==
    /\ lastOp.op = "put" /\ max_size >= 1 /\ ~lastOp.found /\ lastOp.full
    /\ lastOp.evicted = 1
    /\ lastOp.gone # {lastOp.lru[1]}

\* C2: a lookup never returns the result of an entry whose stored policy
\* version differs from the version the lookup is made against: it reports a
\* miss.
C2_OtherVersionIsMiss ==
    (lastOp.op = "get" /\ lastOp.found /\ lastOp.version = "other") =>
        lastOp.ret = None

\* C2 witness: a lookup has found an entry younger than its ttl but tagged with
\* another version, and has reported a miss.
C2_Witness ==
    /\ lastOp.op = "get"
    /\ lastOp.found
    /\ lastOp.version = "other"
    /\ lastOp.age = "below ttl"
    /\ lastOp.ret = None

\* C3: an entry put with ttl = T and not overwritten since is a miss for every
\* lookup made at age >= T, age exactly T included, even when the policy
\* version is unchanged.
C3_MissFromTtlOn ==
    (lastOp.op = "get" /\ lastOp.found /\ lastOp.age \in {"at ttl", "above ttl"}) =>
        lastOp.ret = None

\* C3, the case that fails: a lookup at age exactly T has returned the stored
\* result.
C3_HitAtTtl ==
    /\ lastOp.op = "get"
    /\ lastOp.found
    /\ lastOp.age = "at ttl"
    /\ lastOp.ret # None

-----------------------------------------------------------------------------
(* Claims about the key encoders (checked under SpecKey).                  *)

Encoded == encoder # "none"

\* the same identifiers, and maps holding the same key/value pairs
SameUpToOrder(r1, r2) ==
    /\ r1.principal = r2.principal
    /\ r1.action = r2.action
    /\ r1.resource = r2.resource
    /\ r1.context.present = r2.context.present
    /\ PairsOf(r1.context.data) = PairsOf(r2.context.data)
    /\ r1.entities.present = r2.entities.present
    /\ PairsOf(r1.entities.data) = PairsOf(r2.entities.data)

Meaning(r) ==
    <<r.principal, r.action, r.resource,
      PairsOf(r.context.data), PairsOf(r.entities.data)>>

\* C10: the canonical string is injective on requests: two requests that
\* differ in principal, action, resource, context contents or entities
\* contents never get the same canonical string (hence never the same key).
C10_Injective ==
    (Encoded /\ Meaning(reqA) # Meaning(reqB)) => keyA # keyB

\* C10, the two cases the claim names: a context map M without entities
\* against the entities map M without context, and identifiers holding '|'.
C10_ContextEntitiesSwap ==
    /\ Encoded
    /\ reqA.principal = reqB.principal
    /\ reqA.action = reqB.action
    /\ reqA.resource = reqB.resource
    /\ reqA.context.data # <<>> /\ ~reqA.entities.present
    /\ ~reqB.context.present /\ reqB.entities.data = reqA.context.data
    /\ keyA = keyB

C10_SeparatorInIdentifier ==
    /\ Encoded
    /\ <<reqA.principal, reqA.action, reqA.resource>>
         # <<reqB.principal, reqB.action, reqB.resource>>
    /\ reqA.context = reqB.context
    /\ reqA.entities = reqB.entities
    /\ keyA = keyB

-----------------------------------------------------------------------------
(* Claims about the policy version tag (checked under SpecTag).            *)

\* the content of a policy set: its policies (id and body); two dicts with the
\* same items are equal whatever their insertion order
Content(pols) == { pols[i] : i \in DOMAIN pols }

\* C11: the tag computed by _compute_policies_hash changes if and only if the
\* content of the policy set changes: equal policy sets have equal tags, and
\* policy sets that differ (a policy added, removed, or replaced by one with
\* another body, also under the same id or with the same count) have
\* different tags.
C11_TagTracksContent ==
    encoder # "none" => ((keyA = keyB) <=> (Content(reqA) = Content(reqB)))

\* C11, a case that fails: Engine gives one tag to two policy sets of the same
\* size and different content.
C11_SameCountSameTag ==
    /\ encoder = "Engine"
    /\ Len(reqA) = Len(reqB)
    /\ Content(reqA) # Content(reqB)
    /\ keyA = keyB

\* C11, a case that fails: CachedEngine gives one tag to two policy sets that
\* hold a policy with the same id and another body.
C11_SameIdsSameTag ==
    /\ encoder = "CachedEngine"
    /\ Content(reqA) # Content(reqB)
    /\ [i \in DOMAIN reqA |-> reqA[i].id] = [i \in DOMAIN reqB |-> reqB[i].id]
    /\ keyA = keyB

-----------------------------------------------------------------------------
(* Claims about failures of is_authorized (checked under SpecFacade).      *)

\* C12: a call to is_authorized fails only when the Decision Source failed
\* during that call on a miss: whenever the lookup is a hit or the Decision
\* Source returns normally, the call returns the boolean decision, whatever
\* the configuration of the cache (max_size = 0 included).
C12_FailsOnlyOnDecisionSourceError ==
    \A t \in DOMAIN th :
        th[t].pc = "done" =>
            IF th[t].error = "none" THEN th[t].ret \in {Some(TRUE), Some(FALSE)}
            ELSE th[t].error = "EvaluationError"

\* C12, the case that fails: the Decision Source has returned a decision, and
\* the call has failed with the KeyError of popitem on the empty store.
C12_KeyErrorAfterDecision ==
    \E t \in DOMAIN th :
        /\ th[t].pc = "done"
        /\ th[t].evaluated
        /\ th[t].error = "KeyError"
        /\ max_size = 0
        /\ lastOp.op = "put raised"

-----------------------------------------------------------------------------
(* Claims about construction (checked under SpecConstruct).                *)

\* C13: constructing the cache with max_size == 0 or with a non-positive
\* default TTL fails at construction, so that every cache that exists has
\* max_size >= 1 and a positive default TTL, and no cache with max_size < 1
\* serves a request.
C13_ConstructedCacheIsValid ==
    /\ mode # "none" => max_size >= 1
    /\ mode \in {"CachedEngine", "Engine"} => config.default_ttl > 0

\* C13, the case that fails: a cache constructed with max_size = 0 has served
\* a request.
C13_ServedWithSizeZero ==
    /\ mode # "none"
    /\ max_size = 0
    /\ lastOp.op \in {"get", "put raised"}

\* C13, the case that fails: a facade constructed with default TTL 0 has
\* stored an entry.
C13_StoredWithTtlZero ==
    /\ mode \in {"CachedEngine", "Engine"}
    /\ config.default_ttl = 0
    /\ \E i \in DOMAIN cache : cache[i].ttl = 0

-----------------------------------------------------------------------------
(* Claims about warm_cache (checked under SpecWarm).                       *)

-----------------------------------------------------------------------------
(* Claims about EnhancedEngine (checked under SpecEnhanced).               *)

\* a thread is about to read the dicts of the TTLCache
EnhancedReader(t) ==
    th[t].pc \in {"get_contains", "get_timestamp", "get_value", "set_len", "set_min"}

\* C15: EnhancedEngine with caching enabled is safe for concurrent use: under
\* any interleaving of concurrent is_authorized calls no call fails with a
\* cache-internal error, and the value map and the timestamp map hold the
\* same key set whenever a thread reads them.
C15_SafeForConcurrentUse ==
    /\ \A t \in DOMAIN th : th[t].error \in {"none", "EvaluationError"}
    /\ (\E t \in DOMAIN th : EnhancedReader(t))
          => dict_keys(TTLCache_cache) = dict_keys(TTLCache_timestamps)

\* C15, the case that fails: a call has raised KeyError on a key that another
\* call was setting or removing.
C15_CallRaisedKeyError ==
    \E t \in DOMAIN th : th[t].pc = "done" /\ th[t].error = "KeyError"

\* C17: misses are not de-duplicated: callers that missed on one key each
\* invoke the Decision Source and each put; whenever the key is in the store
\* afterwards the store holds exactly one entry for it, and that entry carries
\* the value written by the put executed last.
C17_LastWriterWins ==
    \A i \in DOMAIN cache :
        /\ \A j \in DOMAIN cache : cache[i].key = cache[j].key => i = j
        /\ evalUnder[cache[i].key] # None
        /\ cache[i].result = Decide(evalUnder[cache[i].key][1])

\* C17 witness: two callers of one request have both missed, both invoked the
\* Decision Source, obtained different decisions and both put; the entry
\* carries the decision of the one whose put came last.
C17_Witness ==
    \E t, u \in DOMAIN th :
        /\ t # u
        /\ th[t].pc = "done" /\ th[t].evaluated /\ th[t].error = "none"
        /\ th[u].pc = "done" /\ th[u].evaluated /\ th[u].error = "none"
        /\ th[t].key = th[u].key
        /\ th[t].ret # th[u].ret
        /\ lastOp.op = "put"
        /\ HasKey(cache, th[t].key[1])
        /\ Some(Lookup(cache, th[t].key[1]).result) = th[u].ret
        /\ Len(cache) = 1

-----------------------------------------------------------------------------
(* Claims about LRUCache under concurrent callers (checked under SpecLock). *)

\* C16: under any interleaving of concurrent get, put,
\* invalidate_by_policy_hash and clear, each operation behaves as if executed
\* atomically at one instant between its call and its return: it leaves the
\* store and returns the result that the whole method, run on the store as it
\* was when the operation took the lock, would; so a get returns a miss or the
\* result of the latest put of its key whose entry is still present and valid,
\* and no entry mixes the values of two puts.
C16_OperationsAreAtomic ==
    /\ \A t \in DOMAIN th : th[t].atomic /\ th[t].error = "none"
    /\ \A t \in DOMAIN th :
          th[t].pc \notin {"idle", "done"} =>
              /\ lock = Some(t)
              /\ \A u \in DOMAIN th \ {t} : th[u].pc \in {"idle", "done"}
    /\ \A i \in DOMAIN cache :
          /\ cache[i].result = StoreDecision(cache[i].key, cache[i].policies_hash)
          /\ \A j \in DOMAIN cache : cache[i].key = cache[j].key => i = j

\* C16 witness: after puts of one key by two threads, a third thread's get of
\* that key has returned the result of the put executed last.
C16_Witness ==
    \E t \in DOMAIN th :
        /\ th[t].pc = "done" /\ th[t].op[1].name = "get" /\ th[t].ret # None
        /\ \A u \in DOMAIN th \ {t} :
              /\ th[u].pc = "done" /\ th[u].op[1].name = "put"
              /\ th[u].op[1].key = th[t].op[1].key
        /\ \E u, v \in DOMAIN th \ {t} : th[u].op[1].hash # th[v].op[1].hash
        /\ th[t].ret = Some(StoreDecision(th[t].op[1].key, th[t].op[1].hash))

-----------------------------------------------------------------------------
(* Claims about engines without an enabled cache (checked under            *)
(* SpecUncached).                                                          *)

\* the calls of the authorizer made on behalf of caller t
CallsOf(t) == { i \in DOMAIN call_log : call_log[i].caller = t }

\* the identifier a request names: the uid of the entity given, or the str
\* given, without the white space around it
Identifier(x) == IF IsStr(x) THEN rstrip(lstrip(x.str)) ELSE x.uid

\* C20: with caching not enabled (an Engine constructed without an enabled
\* cache_config, or an EnhancedEngine built without with_caching), every
\* is_authorized call invokes the authorizer exactly once, with the
\* identifiers of the request's principal, action and resource, and returns
\* exactly the authorizer's result (or fails as the authorizer failed);
\* nothing is stored between calls, and the cache statistics report that
\* there is no cache.
C20_UncachedCallsAuthorizerOnce ==
    /\ cache = <<>> /\ TTLCache_cache = <<>> /\ stats = NewStats
    /\ \A t \in DOMAIN th :
          /\ th[t].op = "is_authorized" /\ th[t].pc = "authorize" => CallsOf(t) = {}
          /\ th[t].op = "is_authorized" /\ th[t].pc = "done" =>
                /\ Cardinality(CallsOf(t)) = 1
                /\ \A i \in CallsOf(t) :
                      /\ call_log[i].principal = Identifier(th[t].request[1].principal)
                      /\ call_log[i].action = Identifier(th[t].request[1].action)
                      /\ call_log[i].resource = Identifier(th[t].request[1].resource)
                      /\ th[t].ret = call_log[i].result
                      /\ th[t].error = "none" <=> call_log[i].result # None
          /\ th[t].op = "get_cache_stats" /\ th[t].pc = "done" =>
                th[t].ret = IF mode = "Engine" THEN None ELSE Some([enabled |-> FALSE])
    /\ Len(call_log) =
          Cardinality({ t \in DOMAIN th : th[t].op = "is_authorized" /\ th[t].pc = "done" })

\* C20 witness: two calls for one request have returned, either side of a
\* change of the policy set; each invoked the authorizer and they returned
\* different decisions, and a third caller was told that there is no cache.
C20_Witness ==
    \E t, u, s \in DOMAIN th :
        /\ th[t].pc = "done" /\ th[t].op = "is_authorized" /\ th[t].error = "none"
        /\ th[u].pc = "done" /\ th[u].op = "is_authorized" /\ th[u].error = "none"
        /\ th[t].request = th[u].request
        /\ th[t].ret = Some(TRUE) /\ th[u].ret = Some(FALSE)
        /\ Len(call_log) = 2
        /\ th[s].pc = "done" /\ th[s].op = "get_cache_stats"

-----------------------------------------------------------------------------
(* Claims about background refresh and adaptive ttl (checked under         *)
(* SpecRefresh, SpecRefreshFair).                                          *)

C25_RefreshOnlyNearExpiry ==
    \A i \in DOMAIN tasks :
        tasks[i].entry # None =>
            100 * tasks[i].entry[1].elapsed
                >= config.background_refresh_threshold * tasks[i].entry[1].ttl

\* C25, the case that fails: a refresh task has been submitted for an entry
\* that had just been stored.
C25_FreshEntryRefreshed ==
    \E i \in DOMAIN tasks :
        /\ tasks[i].entry # None
        /\ tasks[i].entry[1].elapsed = 0
        /\ tasks[i].entry[1].ttl > 0

\* the refresh tasks queued or running for key k
InFlight(k) == { i \in DOMAIN tasks : tasks[i].key = k /\ tasks[i].pc # "done" }

\* C26: at any time at most one refresh task is queued or running for a key.
C26_OneRefreshPerKey ==
    \A k \in FacadeKeys : Cardinality(InFlight(k)) <= 1

\* C26, the case that fails: two refresh tasks for one key, submitted by two
\* callers, are queued at once.
C26_TwoRefreshesInFlight ==
    \E i, j \in DOMAIN tasks :
        /\ i # j /\ tasks[i].key = tasks[j].key /\ tasks[i].by # tasks[j].by
        /\ tasks[i].pc = "queued" /\ tasks[j].pc = "queued"

\* C27: a refresh that completes successfully stores its result with the
\* adaptive ttl and tagged with the policy version that a lookup made at the
\* moment of the put compares against.
C27_RefreshTagIsLookupVersion ==
    \A i \in DOMAIN tasks :
        tasks[i].stored # None =>
            tasks[i].stored[1].policies_hash = tasks[i].compared[1]

\* C27, the case that fails: a refresh has stored an entry tagged with a
\* version other than the one a lookup computed at that moment.
C27_RefreshStoredOldVersion ==
    \E i \in DOMAIN tasks :
        /\ tasks[i].stored # None /\ ~tasks[i].failed
        /\ tasks[i].stored[1].policies_hash # tasks[i].compared[1]
        /\ tasks[i].stored[1].policies_hash = current_policies_hash[1]

\* C28: when the Decision Source raises inside a refresh task, no caller is
\* affected, the entry stored for the key keeps its result, timestamp, ttl
\* and policy version, and the key leaves the pending set.
C28_RefreshFailureIsContained ==
    [][\A i \in DOMAIN tasks :
          /\ (tasks[i].pc = "queued" /\ tasks'[i].pc = "finally") =>
                /\ cache' = cache /\ stats' = stats /\ th' = th
                /\ tasks'[i].failed
          /\ (tasks[i].pc = "finally" /\ tasks[i].failed /\ tasks'[i].pc = "done") =>
                /\ cache' = cache /\ stats' = stats /\ th' = th
                /\ tasks[i].key \notin refresh_queue']_vars

\* C28 witness: a refresh task has failed and finished; the key's entry is
\* in the store as the task found it, no caller has failed and the key has
\* left the pending set.
C28_Witness ==
    \E i \in DOMAIN tasks :
        /\ tasks[i].pc = "done" /\ tasks[i].failed /\ tasks[i].entry # None
        /\ HasKey(cache, tasks[i].key)
        /\ Lookup(cache, tasks[i].key).ttl = tasks[i].entry[1].ttl
        /\ tasks[i].key \notin refresh_queue
        /\ \A t \in DOMAIN th : th[t].error = "none"

\* C29: every key added to the pending set is eventually removed from it.
C29_PendingKeyIsRemoved ==
    \A k \in FacadeKeys : (k \in refresh_queue) ~> (k \notin refresh_queue)

\* C29 witness: a key is in the pending set and its task has not started.
C29_Witness ==
    \E i \in DOMAIN tasks : tasks[i].pc = "queued" /\ tasks[i].key \in refresh_queue

\* ttl_for(base_ttl, f, hot_threshold), in the unit of base_ttl (base_ttl is
\* even)
TtlFor(base_ttl, f, hot_threshold, hot_path) ==
    IF ~hot_path THEN base_ttl
    ELSE IF f >= hot_threshold THEN 2 * base_ttl
    ELSE IF 2 * f >= hot_threshold THEN base_ttl + base_ttl \div 2
    ELSE base_ttl

-----------------------------------------------------------------------------
(* Claims about the frequency tracker (checked under SpecFacade, SpecRace). *)

\* thread t's call of is_authorized for key k passes _track_query_frequency
\* in this step
Tracks(t, k) ==
    /\ th[t].pc = "called" /\ th'[t].pc = "tracked"
    /\ th[t].key = Some(k)

\* C31: with hot-path optimization enabled, every is_authorized call for key
\* k increments k's frequency counter by exactly 1, whether the lookup turns
\* out a hit or a miss, and nothing else changes the counter.
C31_EveryCallCountsOnce ==
    [][\A k \in FacadeKeys :
          /\ (config.enable_hot_path_optimization
                /\ \E t \in DOMAIN th : Tracks(t, k))
                => hot_queries'[k] = hot_queries[k] + 1
          /\ hot_queries'[k] # hot_queries[k]
                => (config.enable_hot_path_optimization
                      /\ \E t \in DOMAIN th : Tracks(t, k))]_vars

\* C31, the case that fails: two calls for one key have both passed
\* _track_query_frequency, and the key's counter is 1.
C31_TwoCallsCountedOnce ==
    /\ mode = "CachedEngine" /\ config.enable_hot_path_optimization
    /\ \E t, u \in DOMAIN th :
          /\ t # u /\ th[t].key # None /\ th[t].key = th[u].key
          /\ th[t].pc \notin {"idle", "called"} /\ th[u].pc \notin {"idle", "called"}
          /\ hot_queries[th[t].key[1]] = 1

\* C32: once n concurrent is_authorized calls for one key have all completed,
\* the key's frequency counter has increased by exactly n.
C32_NoLostUpdate ==
    (/\ mode = "CachedEngine" /\ config.enable_hot_path_optimization
     /\ \A t \in DOMAIN th : th[t].pc = "done")
        => hot_queries[CachedEngine_generate_cache_key(RaceRequest)]
              = Cardinality(DOMAIN th)

\* C32, the case that fails: all the concurrent calls for the key have
\* completed and its counter has increased by less than their number.
C32_UpdateLost ==
    /\ mode = "CachedEngine" /\ config.enable_hot_path_optimization
    /\ \A t \in DOMAIN th : th[t].pc = "done" /\ th[t].error = "none"
    /\ hot_queries[CachedEngine_generate_cache_key(RaceRequest)]
          < Cardinality(DOMAIN th)

-----------------------------------------------------------------------------
(* Claims about the store lock around the Decision Source (checked under   *)
(* SpecHold).                                                              *)

\* C33: the store lock is never held by a caller that is inside the Decision
\* Source, and while callers are inside it a concurrent lookup can acquire
\* the lock as soon as no get or put body is running.
C33_LockFreeDuringEvaluation ==
    /\ \A t \in DOMAIN th : th[t].pc = "evaluating" => lock # Some(t)
    /\ \A u \in DOMAIN th :
          (/\ th[u].pc = "get_wait"
           /\ \A v \in DOMAIN th : th[v].pc \notin {"get_locked", "put_locked"})
              => CanAcquire(lock, u)

\* C33 witness: a lookup that began while another caller was inside the
\* Decision Source has completed, and that caller is still inside it.
C33_Witness ==
    \E t, u \in DOMAIN th :
        /\ t # u /\ th[t].pc = "evaluating" /\ t \in th[u].during
        /\ th[u].pc = "done" /\ th[u].error = "none" /\ th[u].ret # None
        /\ lock = None

-----------------------------------------------------------------------------
(* Claims about the lookup statistics (checked under SpecFacade).          *)

\* this step is the get of a caller's lookup
IsGet ==
    \E t \in DOMAIN th :
        \/ mode = "CachedEngine" /\ th[t].pc = "tracked" /\ th'[t].pc # "tracked"
        \/ mode = "Engine" /\ th[t].pc = "idle" /\ th'[t].pc # "idle"

\* C34: hits + misses = total_requests in every state; each get adds 1 to
\* total_requests and 1 to exactly one of hits and misses; put, invalidation
\* and clear change none of the three.
C34_RequestsAreHitsPlusMisses ==
    /\ [](stats.hits + stats.misses = stats.total_requests)
    /\ [][IF IsGet
          THEN /\ stats'.total_requests = stats.total_requests + 1
               /\ \/ stats'.hits = stats.hits + 1 /\ stats'.misses = stats.misses
                  \/ stats'.hits = stats.hits /\ stats'.misses = stats.misses + 1
          ELSE /\ stats'.total_requests = stats.total_requests
               /\ stats'.hits = stats.hits
               /\ stats'.misses = stats.misses]_vars

\* C34 witness: a hit and a miss have been counted, and the store has been
\* written since.
C34_Witness ==
    /\ stats.hits >= 1 /\ stats.misses >= 1
    /\ stats.hits + stats.misses = stats.total_requests
    /\ lastOp.op \in {"put", "clear", "invalidate"}

-----------------------------------------------------------------------------
(* Claims about clear (checked under SpecFacade).                          *)

\* C35: once clear has returned the store is empty, and no entry whose
\* result was evaluated before the clear is ever present again: a miss that
\* was in flight when clear ran stores nothing.
C35_ClearedResultsStayOut ==
    [][/\ lastOp'.op = "clear" => cache' = <<>>
       /\ \A t \in DOMAIN th :
             (th[t].pc = "evaluated" /\ th[t].cleared /\ th'[t].pc = "done")
                => ~HasKey(cache', th[t].key[1])]_vars

\* C35, the case that fails: a caller whose result was evaluated before the
\* store was cleared has stored it since, and the entry is in the store.
C35_StoredAfterClear ==
    \E t \in DOMAIN th :
        /\ th[t].pc = "done" /\ th[t].cleared /\ th[t].error = "none"
        /\ lastOp.op = "put"
        /\ Keys(cache) = {th[t].key[1]}

-----------------------------------------------------------------------------
(* Claims about invalidation after several policy changes (checked under   *)
(* SpecVersions).                                                          *)

\* C36: when invalidate_policy_cache has detected a policy change and
\* returns, every entry remaining in the store is tagged with the new
\* current policy version, however many policy changes happened since the
\* invalidation before.
C36_RemainingEntriesAreCurrent ==
    [][(inv.pc = "record" /\ inv'.pc = "idle" /\ inv'.outcome = "changed") =>
          \A i \in DOMAIN cache' :
              cache'[i].policies_hash = current_policies_hash'[1]]_vars

\* C36, the case that fails: an invalidation has detected a change and
\* returned, the store has not been touched since, and it holds an entry
\* tagged with a version that is neither the old nor the new one.
C36_MiddleVersionKept ==
    /\ inv.pc = "idle" /\ inv.outcome = "changed"
    /\ lastOp.op = "invalidate"
    /\ current_policies_hash = inv.new
    /\ \E i \in DOMAIN cache :
          /\ cache[i].policies_hash # inv.old[1]
          /\ cache[i].policies_hash # inv.new[1]

-----------------------------------------------------------------------------
(* Claims about the key of EnhancedEngine (checked under SpecOrder).       *)

\* the first request has been decided and its decision returned
FirstServed == th["t1"].pc = "done" /\ th["t1"].error = "none"

\* C37: EnhancedEngine._generate_cache_key is order-independent: when the
\* second request holds the same identifiers and the same key/value pairs as
\* the first, in any insertion order, it gets the same key and is served from
\* the decision cache without a call of the base engine.
C37_SecondServedFromCache ==
    [][(SameUpToOrder(reqA, reqB) /\ FirstServed) =>
          /\ th'["t2"].key # None => th'["t2"].key = th["t1"].key
          /\ th'["t2"].pc # "miss"]_vars

\* C37, the case that fails: the second request holds the context pairs of
\* the first in the opposite order; it has another key and is at the call of
\* the base engine.
C37_ReorderedContextMisses ==
    /\ SameUpToOrder(reqA, reqB) /\ FirstServed
    /\ reqA.entities = reqB.entities
    /\ Len(reqA.context.data) = 2
    /\ reqA.context.data # reqB.context.data
    /\ th["t2"].pc = "miss"
    /\ th["t2"].key # th["t1"].key
    /\ th["t1"].key[1] \in dict_keys(TTLCache_cache)

====
